---- MODULE Spec2Model ----
(***************************************************************************)
(* Model of the voice_assistant command pipeline: the intent resolver      *)
(* (nlp_model.parse_intent), the action executor (executor.execute) and    *)
(* the session loop (main.process_text, main.run_interactive).             *)
(*                                                                         *)
(* Python strings are sequences of one-character strings.  A Python value  *)
(* (None, bool, int, str, list, dict) is the pair <<type, payload>>; the   *)
(* payload of a dict is the sequence of its <<key, value>> pairs in        *)
(* insertion order.                                                        *)
(***************************************************************************)
EXTENDS Integers, Sequences, FiniteSets, TLC

VARIABLES config, world, memory, disk, pc, text, cmd, parsed, result, out, calls,
          threads, queue, ui

vars == <<config, world, memory, disk, pc, text, cmd, parsed, result, out, calls, threads, queue, ui>>

(***************************************************************************)
(* Bounds                                                                  *)
(***************************************************************************)
\* longest utterance of the rule-based specification, in phrases
MaxPhrases == 3

(***************************************************************************)
(* Python str operations                                                   *)
(***************************************************************************)
UpperChars == <<"A","B","C","D","E","F","G","H","I","J","K","L","M","N","O","P","Q","R","S","T","U","V","W","X","Y","Z">>

LowerChars == <<"a","b","c","d","e","f","g","h","i","j","k","l","m","n","o","p","q","r","s","t","u","v","w","x","y","z">>

DigitChars == <<"0","1","2","3","4","5","6","7","8","9">>

SpaceChars == {" ", "\t", "\n"}

Range(s) == {s[i] : i \in DOMAIN s}

\* F applied to the value of v: a local variable that is assigned exactly once
Let(v, F(_)) == CHOOSE r \in {F(x) : x \in {v}} : TRUE

\* the characters the regular-expression class \w matches
WordChars == Range(UpperChars) \cup Range(LowerChars) \cup Range(DigitChars) \cup {"_"}

LowerChar(c) ==
    IF c \in Range(UpperChars)
    THEN LowerChars[CHOOSE i \in DOMAIN UpperChars : UpperChars[i] = c]
    ELSE c

\* str.lower()
lower(s) == Let(s, LAMBDA v : [i \in 1..Len(v) |-> LowerChar(v[i])] \o <<>>)

\* the leftmost index at which sub occurs in s, 0 when it does not (str.find + 1)
Find(s, sub) ==
    Let({i \in 1..(Len(s) - Len(sub) + 1) : SubSeq(s, i, i + Len(sub) - 1) = sub},
        LAMBDA hits : IF hits = {} THEN 0 ELSE CHOOSE i \in hits : \A j \in hits : i <= j)

\* sub in s
Contains(s, sub) == Find(s, sub) # 0

\* s.startswith(prefix)
StartsWith(s, prefix) == Len(prefix) <= Len(s) /\ SubSeq(s, 1, Len(prefix)) = prefix

\* str.replace(old, new, 1)
ReplaceFirst(s, old, new) ==
    Let(Find(s, old), LAMBDA i :
        IF i = 0 \/ old = <<>> THEN s
        ELSE SubSeq(s, 1, i - 1) \o new \o SubSeq(s, i + Len(old), Len(s)))

RECURSIVE ReplaceAll(_, _, _)
\* str.replace(old, new): every non-overlapping occurrence, left to right
ReplaceAll(s, old, new) ==
    Let(Find(s, old), LAMBDA i :
        IF i = 0 \/ old = <<>> THEN s
        ELSE SubSeq(s, 1, i - 1) \o new \o
             Let(SubSeq(s, i + Len(old), Len(s)), LAMBDA rest : ReplaceAll(rest, old, new)))

\* str.strip()
strip(s) ==
    Let({i \in 1..Len(s) : s[i] \notin SpaceChars}, LAMBDA keep :
        IF keep = {} THEN <<>>
        ELSE SubSeq(s, CHOOSE i \in keep : \A j \in keep : i <= j,
                       CHOOSE i \in keep : \A j \in keep : i >= j))

\* the regular-expression assertion \b at the gap before s[p] (p in 1..Len(s)+1)
WordBoundary(s, p) ==
    LET before == p > 1 /\ s[p - 1] \in WordChars
        after  == p <= Len(s) /\ s[p] \in WordChars
    IN  before # after

\* re.search(r"\b" + re.escape(name) + r"\b", s) finds a match
WordSearch(name, s) ==
    \E i \in 1..(Len(s) - Len(name) + 1) :
        /\ SubSeq(s, i, i + Len(name) - 1) = name
        /\ WordBoundary(s, i)
        /\ WordBoundary(s, i + Len(name))

RECURSIVE Join(_, _)
\* sep.join(parts)
Join(parts, sep) ==
    Let(parts \o <<>>, LAMBDA ps :
        IF ps = <<>> THEN <<>>
        ELSE IF Len(ps) = 1 THEN ps[1]
        ELSE ps[1] \o sep \o Join(Tail(ps), sep))

(***************************************************************************)
(* Python values                                                           *)
(***************************************************************************)
None == <<"none", <<>>>>

Bool(b) == <<"bool", b>>

True == Bool(TRUE)

False == Bool(FALSE)

Number(n) == <<"int", n>>

Str(s) == <<"str", s>>

List(l) == <<"list", l>>

\* a dict: the sequence of its <<key, value>> pairs, keys are character sequences
Dict(pairs) == <<"dict", pairs>>

isinstance_dict(x) == x[1] = "dict"

isinstance_str(x) == x[1] = "str"

\* bool(x), the truth value "if x" and "not x" test
bool(x) ==
    CASE x[1] = "none" -> FALSE
      [] x[1] = "bool" -> x[2]
      [] x[1] = "int"  -> x[2] # 0
      [] OTHER        -> x[2] # <<>>

\* key in d
HasKey(d, key) == \E i \in DOMAIN d[2] : d[2][i][1] = key

\* d.get(key, default)
get(d, key, default) ==
    IF HasKey(d, key)
    THEN d[2][CHOOSE i \in DOMAIN d[2] : d[2][i][1] = key][2]
    ELSE default

\* d[key] = val
setitem(d, key, val) ==
    IF HasKey(d, key)
    THEN Dict([i \in DOMAIN d[2] |-> IF d[2][i][1] = key THEN <<key, val>> ELSE d[2][i]])
    ELSE Dict(Append(d[2], <<key, val>>))

RECURSIVE IntChars(_)
IntChars(n) ==
    IF n < 10 THEN <<DigitChars[n + 1]>>
    ELSE IntChars(n \div 10) \o <<DigitChars[(n % 10) + 1]>>

RECURSIVE repr(_)
\* repr(x); strings of the model hold no quote characters
repr(x) ==
    CASE x[1] = "none" -> <<"N","o","n","e">>
      [] x[1] = "bool" -> IF x[2] THEN <<"T","r","u","e">> ELSE <<"F","a","l","s","e">>
      [] x[1] = "int"  -> IntChars(x[2])
      [] x[1] = "str"  -> <<"'">> \o x[2] \o <<"'">>
      [] x[1] = "list" -> <<"[">> \o Join([i \in 1..Len(x[2]) |-> repr(x[2][i])], <<",", " ">>) \o <<"]">>
      [] x[1] = "dict" -> <<"{">> \o Join([i \in 1..Len(x[2]) |->
                                repr(Str(x[2][i][1])) \o <<":", " ">> \o repr(x[2][i][2])], <<",", " ">>) \o <<"}">>

\* str(x), which is what an f-string field {x} inserts
str(x) == IF x[1] = "str" THEN x[2] ELSE repr(x)

(***************************************************************************)
(* Keys and literals of the source                                         *)
(***************************************************************************)
K_ok == <<"o","k">>

K_error == <<"e","r","r","o","r">>

K_action == <<"a","c","t","i","o","n">>

K_time == <<"t","i","m","e">>

K_intent == <<"i","n","t","e","n","t">>

K_mapping == <<"m","a","p","p","i","n","g">>

K_type == <<"t","y","p","e">>

K_url == <<"u","r","l">>

K_app == <<"a","p","p">>

K_value == <<"v","a","l","u","e">>

K_entities == <<"e","n","t","i","t","i","e","s">>

K_text == <<"t","e","x","t">>

K_last_command == <<"l","a","s","t","_","c","o","m","m","a","n","d">>

K_handled == <<"h","a","n","d","l","e","d">>

K_reason == <<"r","e","a","s","o","n">>

K_response == <<"r","e","s","p","o","n","s","e">>

K_parsed == <<"p","a","r","s","e","d">>

K_result == <<"r","e","s","u","l","t">>

K_allow_execution == <<"a","l","l","o","w","_","e","x","e","c","u","t","i","o","n">>

K_allow_tts == <<"a","l","l","o","w","_","t","t","s">>

K_use_ollama == <<"u","s","e","_","o","l","l","a","m","a">>

K_use_ollama_decider == <<"u","s","e","_","o","l","l","a","m","a","_","d","e","c","i","d","e","r">>

K_ollama_path == <<"o","l","l","a","m","a","_","p","a","t","h">>

K_llm_model == <<"l","l","m","_","m","o","d","e","l">>

K_always_listen == <<"a","l","w","a","y","s","_","l","i","s","t","e","n">>

K_wake_word == <<"w","a","k","e","_","w","o","r","d">>

K_allowed_commands == <<"a","l","l","o","w","e","d","_","c","o","m","m","a","n","d","s">>

S_open_url == <<"o","p","e","n","_","u","r","l">>

S_open_app == <<"o","p","e","n","_","a","p","p">>

S_tell_time == <<"t","e","l","l","_","t","i","m","e">>

S_execute == <<"e","x","e","c","u","t","e">>

S_unknown == <<"u","n","k","n","o","w","n">>

S_protocol == <<"p","r","o","t","o","c","o","l">>

S_app == <<"a","p","p">>

S_no_intent == <<"n","o","_","i","n","t","e","n","t">>

S_no_url == <<"n","o","_","u","r","l">>

S_no_app_specified == <<"n","o","_","a","p","p","_","s","p","e","c","i","f","i","e","d">>

S_unknown_app_mapping == <<"u","n","k","n","o","w","n","_","a","p","p","_","m","a","p","p","i","n","g">>

S_unknown_action_type == <<"u","n","k","n","o","w","n","_","a","c","t","i","o","n","_","t","y","p","e">>

S_unknown_intent == <<"u","n","k","n","o","w","n","_","i","n","t","e","n","t">>

S_wake_word_not_detected == <<"w","a","k","e","_","w","o","r","d","_","n","o","t","_","d","e","t","e","c","t","e","d">>

S_Yes == <<"Y","e","s","?">>

S_hey_gng == <<"h","e","y"," ","g","n","g">>

S_dry_run == <<"(","d","r","y","-","r","u","n",")">>

F_opened == <<"o","p","e","n","e","d"," ">>

F_opened_protocol == <<"o","p","e","n","e","d"," ","p","r","o","t","o","c","o","l"," ">>

F_launched == <<"l","a","u","n","c","h","e","d"," ">>

F_dry_open == <<"(","d","r","y","-","r","u","n",")"," ","w","o","u","l","d"," ","o","p","e","n"," ">>

F_dry_launch == <<"(","d","r","y","-","r","u","n",")"," ","w","o","u","l","d"," ","l","a","u","n","c","h"," ">>

F_time_is == <<"T","h","e"," ","t","i","m","e"," ","i","s"," ">>

F_error == <<"E","r","r","o","r",":"," ">>

F_start == <<"s","t","a","r","t"," ","\"","\""," ","\"">>

F_tts_error == <<"[","T","T","S"," ","e","r","r","o","r","]"," ">>

F_tts_dry_run == <<"[","T","T","S"," ","d","r","y","-","r","u","n","]"," ">>

E_engine == <<"e","n","g","i","n","e"," ","f","a","i","l","e","d">>

E_AttributeError == <<"A","t","t","r","i","b","u","t","e","E","r","r","o","r">>

E_PermissionError == <<"P","e","r","m","i","s","s","i","o","n"," ","d","e","n","i","e","d">>

E_platform == <<"p","l","a","t","f","o","r","m"," ","c","a","l","l"," ","f","a","i","l","e","d">>

(***************************************************************************)
(* executor.py                                                             *)
(*                                                                         *)
(* A call of the model is written <<function name, argument>>.  execute    *)
(* yields [raised, res, calls]: whether it raised, the outcome record (or  *)
(* the exception), and the calls it made in order.  fails says that the    *)
(* platform call throws, now is what time.strftime returns.                *)
(***************************************************************************)
_maybe_speak(res, cfg) ==
    IF ~bool(get(cfg, K_allow_tts, False)) THEN <<>>
    ELSE IF bool(get(res, K_ok, None)) /\ HasKey(res, K_action)
         THEN << <<"tts.speak", get(res, K_action, None)>> >>
    ELSE IF bool(get(res, K_ok, None)) /\ HasKey(res, K_time)
         THEN << <<"tts.speak", Str(F_time_is \o str(get(res, K_time, None)))>> >>
    ELSE IF ~bool(get(res, K_ok, None))
         THEN << <<"tts.speak", Str(F_error \o str(get(res, K_error, None)))>> >>
    ELSE <<>>

\* res = ...; _maybe_speak(res, config); return res
Returned(res, made, cfg) == [raised |-> FALSE, res |-> res, calls |-> made \o _maybe_speak(res, cfg)]

\* an exception leaves execute
Raised(exc, made) == [raised |-> TRUE, res |-> Str(exc), calls |-> made]

Err(code) == Dict(<< <<K_ok, False>>, <<K_error, Str(code)>> >>)

\* mutant: a success always reports its value as the action
Ok_as_action(key, val) == Dict(<< <<K_ok, True>>, <<K_action, val>> >>)

Ok(key, val) == Dict(<< <<K_ok, True>>, <<key, val>> >>)

\* mutant: the live open reports the dry-run label
TryOpen_dry_label(target, label, fails, cfg) ==
    Returned(IF fails THEN Err(E_platform) ELSE Ok(K_action, Str(F_dry_open \o str(target))),
             << <<"webbrowser.open", target>> >>, cfg)

\* webbrowser.open(target, ...) inside try/except: the call, and the outcome
TryOpen(target, label, fails, cfg) ==
    Returned(IF fails THEN Err(E_platform) ELSE Ok(K_action, Str(label \o str(target))),
             << <<"webbrowser.open", target>> >>, cfg)

\* subprocess.run(f'start "" "{target}"', shell=True, check=False) inside try/except
TryStart(target, fails, cfg) ==
    Returned(IF fails THEN Err(E_platform) ELSE Ok(K_action, Str(F_launched \o str(target))),
             << <<"subprocess.run", Str(F_start \o str(target) \o <<"\"">>)>> >>, cfg)

\* the live launch of an app value, a mapping or a plain name
LaunchApp(app, fails, cfg) ==
    IF isinstance_dict(app)
    THEN LET a_type2 == get(app, K_type, None)
             a_val   == get(app, K_value, None)
         IN  IF a_type2 = Str(S_protocol) THEN TryOpen(a_val, F_opened_protocol, fails, cfg)
             ELSE IF a_type2 = Str(S_app) THEN TryStart(a_val, fails, cfg)
             ELSE Returned(Dict(<< <<K_ok, False>>, <<K_error, Str(S_unknown_app_mapping)>>,
                                   <<K_mapping, app>> >>), <<>>, cfg)
    ELSE TryStart(app, fails, cfg)

\* mutant: the url of the action is not checked
action_open_url_unchecked(action, allow, fails, cfg) ==
    LET url == get(action, K_url, None)
    IN  IF allow THEN TryOpen(url, F_opened, fails, cfg)
        ELSE Returned(Ok(K_action, Str(F_dry_open \o str(url))), <<>>, cfg)

\* if a_type == "open_url": (the action of the decider)
action_open_url(action, allow, fails, cfg) ==
    LET url == get(action, K_url, None)
    IN  IF ~bool(url) THEN Returned(Err(S_no_url), <<>>, cfg)
        ELSE IF allow THEN TryOpen(url, F_opened, fails, cfg)
        ELSE Returned(Ok(K_action, Str(F_dry_open \o str(url))), <<>>, cfg)

\* mutant: a dry run reports the action without the marker
action_open_app_unmarked(action, allow, fails, cfg) ==
    LET app == get(action, K_app, None)
    IN  IF ~bool(app) THEN Returned(Err(S_no_app_specified), <<>>, cfg)
        ELSE IF allow THEN LaunchApp(app, fails, cfg)
        ELSE Returned(Ok(K_action, Str(F_launched \o str(app))), <<>>, cfg)

\* if a_type == "open_app":
action_open_app(action, allow, fails, cfg) ==
    LET app == get(action, K_app, None)
    IN  IF ~bool(app) THEN Returned(Err(S_no_app_specified), <<>>, cfg)
        ELSE IF allow THEN LaunchApp(app, fails, cfg)
        ELSE Returned(Ok(K_action, Str(F_dry_launch \o str(app))), <<>>, cfg)

\* if action: ... dispatch on action.get("type")
action_branch(action, allow, fails, now, cfg) ==
    IF ~isinstance_dict(action) THEN Raised(E_AttributeError, <<>>)
    ELSE LET a_type == get(action, K_type, None)
         IN  IF a_type = Str(S_open_url) THEN action_open_url(action, allow, fails, cfg)
             ELSE IF a_type = Str(S_open_app) THEN action_open_app(action, allow, fails, cfg)
             ELSE IF a_type = Str(S_tell_time) THEN Returned(Ok(K_time, Str(now)), <<>>, cfg)
             ELSE Returned(Dict(<< <<K_ok, False>>, <<K_error, Str(S_unknown_action_type)>>,
                                   <<K_action, action>> >>), <<>>, cfg)

\* mutant: the dry run also attempts the platform call
intent_open_url_probing(entities, allow, fails, cfg) ==
    IF ~isinstance_dict(entities) THEN Raised(E_AttributeError, <<>>)
    ELSE LET url == get(entities, K_url, None)
         IN  IF ~bool(url) THEN Returned(Err(S_no_url), <<>>, cfg)
             ELSE IF allow THEN TryOpen(url, F_opened, fails, cfg)
             ELSE TryOpen(url, F_dry_open, fails, cfg)

\* if intent == "open_url":
intent_open_url(entities, allow, fails, cfg) ==
    IF ~isinstance_dict(entities) THEN Raised(E_AttributeError, <<>>)
    ELSE LET url == get(entities, K_url, None)
         IN  IF ~bool(url) THEN Returned(Err(S_no_url), <<>>, cfg)
             ELSE IF allow THEN TryOpen(url, F_opened, fails, cfg)
             ELSE Returned(Ok(K_action, Str(F_dry_open \o str(url))), <<>>, cfg)

\* if intent == "open_app":
intent_open_app(entities, allow, fails, cfg) ==
    IF ~isinstance_dict(entities) THEN Raised(E_AttributeError, <<>>)
    ELSE LET app == get(entities, K_app, None)
         IN  IF ~bool(app) THEN Returned(Err(S_no_app_specified), <<>>, cfg)
             ELSE IF allow THEN LaunchApp(app, fails, cfg)
             ELSE Returned(Ok(K_action, Str(F_dry_launch \o str(app))), <<>>, cfg)

\* mutant: execution is allowed unless the config forbids it
allow_execution_by_default(cfg) == bool(get(cfg, K_allow_execution, True))

\* allow = bool(config.get("allow_execution", False))
allow_execution(cfg) == bool(get(cfg, K_allow_execution, False))

\* mutant: intent None is dispatched like any other intent
execute_without_no_intent(intent, entities, cfg, fails, now) ==
    LET allow  == allow_execution(cfg)
        action == IF isinstance_dict(entities) /\ HasKey(entities, K_action)
                  THEN get(entities, K_action, None) ELSE None
    IN  IF bool(action) THEN action_branch(action, allow, fails, now, cfg)
        ELSE IF intent = Str(S_open_url) THEN intent_open_url(entities, allow, fails, cfg)
        ELSE IF intent = Str(S_open_app) THEN intent_open_app(entities, allow, fails, cfg)
        ELSE IF intent = Str(S_tell_time) THEN Returned(Ok(K_time, Str(now)), <<>>, cfg)
        ELSE Returned(Dict(<< <<K_ok, False>>, <<K_error, Str(S_unknown_intent)>>,
                              <<K_intent, intent>> >>), <<>>, cfg)

execute(intent, entities, cfg, fails, now) ==
    LET allow  == allow_execution(cfg)
        action == IF isinstance_dict(entities) /\ HasKey(entities, K_action)
                  THEN get(entities, K_action, None) ELSE None
    IN  IF intent = None THEN Returned(Err(S_no_intent), <<>>, cfg)
        ELSE IF bool(action) THEN action_branch(action, allow, fails, now, cfg)
        ELSE IF intent = Str(S_open_url) THEN intent_open_url(entities, allow, fails, cfg)
        ELSE IF intent = Str(S_open_app) THEN intent_open_app(entities, allow, fails, cfg)
        ELSE IF intent = Str(S_tell_time) THEN Returned(Ok(K_time, Str(now)), <<>>, cfg)
        ELSE Returned(Dict(<< <<K_ok, False>>, <<K_error, Str(S_unknown_intent)>>,
                              <<K_intent, intent>> >>), <<>>, cfg)

\* tts.py: pyttsx3 cannot be imported, or it speaks, or its engine raises
Engines == {"absent", "speaks", "fails"}

\* mutant: an exception of the engine leaves speak
speak_unguarded(txt, engine) ==
    IF ~bool(txt) THEN [raised |-> FALSE, calls |-> <<>>]
    ELSE IF engine # "absent"
         THEN IF engine = "fails" THEN [raised |-> TRUE, calls |-> <<>>]
              ELSE [raised |-> FALSE, calls |-> << <<"pyttsx3.say", txt>> >>]
         ELSE [raised |-> FALSE, calls |-> << <<"print", Str(F_tts_dry_run \o str(txt))>> >>]

\* tts.speak(text): whether an exception leaves it, and what it says or prints
speak(txt, engine) ==
    IF ~bool(txt) THEN [raised |-> FALSE, calls |-> <<>>]
    ELSE IF engine # "absent"
         THEN IF engine = "fails"
              THEN [raised |-> FALSE, calls |-> << <<"print", Str(F_tts_error \o E_engine)>> >>]
              ELSE [raised |-> FALSE, calls |-> << <<"pyttsx3.say", txt>> >>]
         ELSE [raised |-> FALSE, calls |-> << <<"print", Str(F_tts_dry_run \o str(txt))>> >>]

\* execute with tts.speak behind it: the call _maybe_speak makes, the last
\* before execute returns, is run by speak
with_tts(r, engine) ==
    IF r.calls = <<>> \/ r.calls[Len(r.calls)][1] # "tts.speak" THEN r
    ELSE Let(speak(r.calls[Len(r.calls)][2], engine), LAMBDA sp :
            IF sp.raised THEN [raised |-> TRUE, res |-> Str(E_engine), calls |-> r.calls \o sp.calls]
            ELSE [r EXCEPT !.calls = r.calls \o sp.calls])

(***************************************************************************)
(* JSON text                                                               *)
(*                                                                         *)
(* The text the external model writes is a sequence of lexical tokens      *)
(* <<t, v>>: the punctuation of JSON, string and number literals, the        *)
(* literals true/false/null, white space, and prose ("junk", which holds   *)
(* no brace).                                                              *)
(***************************************************************************)
Tok(t, v) == <<t, v>>

Punct(c) == Tok(c, <<>>)

NL == Tok("ws", <<"\n">>)

Junk(s) == Tok("junk", s)

RECURSIVE dumps(_)
\* json.dumps(x) / json.dump(x, f)
dumps(x) ==
    CASE x[1] = "str"  -> <<Tok("str", x[2])>>
      [] x[1] = "int"  -> <<Tok("num", x[2])>>
      [] x[1] = "list" ->
            <<Punct("[")>> \o Join([i \in 1..Len(x[2]) |-> dumps(x[2][i])], <<Punct(",")>>) \o <<Punct("]")>>
      [] x[1] = "dict" ->
            <<Punct("{")>> \o Join([i \in 1..Len(x[2]) |->
                <<Tok("str", x[2][i][1]), Punct(":")>> \o dumps(x[2][i][2])], <<Punct(",")>>) \o <<Punct("}")>>
      [] OTHER        -> <<Tok("lit", x)>>

NoParse == [ok |-> FALSE, val |-> None, next |-> 0]

Parsed(val, next) == [ok |-> TRUE, val |-> val, next |-> next]

RECURSIVE ParseValue(_, _)
RECURSIVE ParseMembers(_, _, _)
RECURSIVE ParseElements(_, _, _)
\* the JSON value that starts at token i
ParseValue(toks, i) ==
    IF i > Len(toks) THEN NoParse
    ELSE CASE toks[i][1] = "str" -> Parsed(Str(toks[i][2]), i + 1)
           [] toks[i][1] = "num" -> Parsed(Number(toks[i][2]), i + 1)
           [] toks[i][1] = "lit" -> Parsed(toks[i][2], i + 1)
           [] toks[i][1] = "{"   ->
                IF i + 1 <= Len(toks) /\ toks[i + 1][1] = "}" THEN Parsed(Dict(<<>>), i + 2)
                ELSE ParseMembers(toks, i + 1, Dict(<<>>))
           [] toks[i][1] = "["   ->
                IF i + 1 <= Len(toks) /\ toks[i + 1][1] = "]" THEN Parsed(List(<<>>), i + 2)
                ELSE ParseElements(toks, i + 1, <<>>)
           [] OTHER -> NoParse

\* "key": value pairs up to the closing brace; a repeated key keeps its last value
ParseMembers(toks, i, acc) ==
    IF i + 1 > Len(toks) \/ toks[i][1] # "str" \/ toks[i + 1][1] # ":" THEN NoParse
    ELSE Let(ParseValue(toks, i + 2), LAMBDA r :
             IF ~r.ok \/ r.next > Len(toks) THEN NoParse
             ELSE Let(setitem(acc, toks[i][2], r.val), LAMBDA d :
                      IF toks[r.next][1] = "}" THEN Parsed(d, r.next + 1)
                      ELSE IF toks[r.next][1] = "," THEN ParseMembers(toks, r.next + 1, d)
                      ELSE NoParse))

\* values up to the closing bracket
ParseElements(toks, i, acc) ==
    Let(ParseValue(toks, i), LAMBDA r :
        IF ~r.ok \/ r.next > Len(toks) THEN NoParse
        ELSE Let(Append(acc, r.val), LAMBDA l :
                 IF toks[r.next][1] = "]" THEN Parsed(List(l), r.next + 1)
                 ELSE IF toks[r.next][1] = "," THEN ParseElements(toks, r.next + 1, l)
                 ELSE NoParse))

\* json.loads(s): the whole text is one value, white space apart
loads(toks) ==
    Let(SelectSeq(toks, LAMBDA k : k[1] # "ws"), LAMBDA s :
        Let(ParseValue(s, 1), LAMBDA r :
            IF r.ok /\ r.next = Len(s) + 1 THEN r ELSE NoParse))

(***************************************************************************)
(* nlp_model.py                                                            *)
(***************************************************************************)
\* mutant: ollama_path is ignored
_ollama_available_on_path(ollama_path, env) == env.which

\* the executable is looked up at ollama_path when one is given, on PATH otherwise
_ollama_available(ollama_path, env) ==
    IF bool(ollama_path) THEN env.path ELSE env.which

\* what one run of the model process does: it exits having written stdout and
\* stderr, or subprocess.run raises (FileNotFoundError, TimeoutExpired, OSError)
Exits(stdout, stderr) == [kind |-> "exit", stdout |-> stdout, stderr |-> stderr]

Throws(exc) == [kind |-> exc, stdout |-> <<>>, stderr |-> <<>>]

\* mutant: only standard output is read
_call_ollama_stdout_only(run) ==
    IF run.kind # "exit" THEN [raised |-> FALSE, out |-> <<>>]
    ELSE [raised |-> FALSE, out |-> run.stdout]

\* mutant: only the timeout of the process call is absorbed
_call_ollama_timeout_only(run) ==
    IF run.kind = "TimeoutExpired" THEN [raised |-> FALSE, out |-> <<>>]
    ELSE IF run.kind # "exit" THEN [raised |-> TRUE, out |-> <<>>]
    ELSE IF run.stderr # <<>> /\ run.stdout = <<>> THEN [raised |-> FALSE, out |-> <<NL>> \o run.stderr]
    ELSE [raised |-> FALSE, out |-> run.stdout]

\* mutant: the exception of the process call is not absorbed
_call_ollama_unguarded(run) ==
    IF run.kind # "exit" THEN [raised |-> TRUE, out |-> <<>>]
    ELSE IF run.stderr # <<>> /\ run.stdout = <<>> THEN [raised |-> FALSE, out |-> <<NL>> \o run.stderr]
    ELSE [raised |-> FALSE, out |-> run.stdout]

\* [raised, out]: the text _call_ollama returns, or that an exception leaves it
_call_ollama(run) ==
    IF run.kind # "exit" THEN [raised |-> FALSE, out |-> <<>>]
    ELSE IF run.stderr # <<>> /\ run.stdout = <<>> THEN [raised |-> FALSE, out |-> <<NL>> \o run.stderr]
    ELSE [raised |-> FALSE, out |-> run.stdout]

\* re.search(r"\{[\s\S]*\}", text): leftmost "{", then as far as the last "}"
_extract_json(reply) ==
    Let(reply, LAMBDA txt :
        LET opens  == {i \in 1..Len(txt) : txt[i][1] = "{"}
            closes == {i \in 1..Len(txt) : txt[i][1] = "}"}
            first  == CHOOSE i \in opens : \A j \in opens : i <= j
            last   == CHOOSE i \in closes : \A j \in closes : i >= j
        IN  IF opens = {} \/ closes = {} THEN Dict(<<>>)
            ELSE IF last < first THEN Dict(<<>>)
            ELSE Let(loads(SubSeq(txt, first, last)), LAMBDA r :
                     IF r.ok THEN r.val ELSE Dict(<<>>)))

N_microsoft_store == <<"m","i","c","r","o","s","o","f","t"," ","s","t","o","r","e">>

N_microsoft == <<"m","i","c","r","o","s","o","f","t">>

N_xbox == <<"x","b","o","x">>

N_spotify == <<"s","p","o","t","i","f","y">>

N_github == <<"g","i","t","h","u","b">>

N_linkedin == <<"l","i","n","k","e","d","i","n">>

N_steam == <<"s","t","e","a","m">>

N_mic_store == <<"m","i","c"," ","s","t","o","r","e">>

N_microsft_store == <<"m","i","c","r","o","s","f","t"," ","s","t","o","r","e">>

N_edge == <<"e","d","g","e">>

N_browser == <<"b","r","o","w","s","e","r">>

N_chrome == <<"c","h","r","o","m","e">>

N_msedge == <<"m","s","e","d","g","e">>

N_open == <<"o","p","e","n">>

N_what == <<"w","h","a","t">>

N_time == <<"t","i","m","e">>

U_store == <<"m","s","-","w","i","n","d","o","w","s","-","s","t","o","r","e",":","/","/","h","o","m","e">>

U_xbox == <<"x","b","o","x",":">>

U_github == <<"h","t","t","p","s",":","/","/","g","i","t","h","u","b",".","c","o","m">>

U_linkedin == <<"h","t","t","p","s",":","/","/","w","w","w",".","l","i","n","k","e","d","i","n",".","c","o","m">>

U_xbox_site == <<"h","t","t","p","s",":","/","/","w","w","w",".","x","b","o","x",".","c","o","m">>

U_steam == <<"h","t","t","p","s",":","/","/","s","t","o","r","e",".","s","t","e","a","m","p","o","w","e","r","e","d",".","c","o","m">>

AppTarget(kind, value) == Dict(<< <<K_type, Str(kind)>>, <<K_value, Str(value)>> >>)

app_map ==
    << <<N_microsoft_store, AppTarget(S_protocol, U_store)>>,
       <<N_microsoft,       AppTarget(S_protocol, U_store)>>,
       <<N_xbox,            AppTarget(S_protocol, U_xbox)>>,
       <<N_spotify,         AppTarget(S_app, N_spotify)>> >>

site_map ==
    << <<N_github,   U_github>>,
       <<N_linkedin, U_linkedin>>,
       <<N_xbox,     U_xbox_site>>,
       <<N_steam,    U_steam>> >>

aliases ==
    << <<N_mic_store,      N_microsoft_store>>,
       <<N_microsft_store, N_microsoft_store>> >>

ParseResult(intent, entities) == Dict(<< <<K_intent, intent>>, <<K_entities, entities>> >>)

RECURSIVE apply_aliases(_, _)
\* for a, b in aliases.items(): if a in t and b not in t: t = t.replace(a, b)
apply_aliases(t, i) ==
    IF i > Len(aliases) THEN t
    ELSE Let(IF Contains(t, aliases[i][1]) /\ ~Contains(t, aliases[i][2])
             THEN ReplaceAll(t, aliases[i][1], aliases[i][2]) ELSE t,
             LAMBDA replaced : apply_aliases(replaced, i + 1))

\* the first entry of a table whose name matches t as a whole word, 0 when none does
FirstMatch(table, t) ==
    Let({i \in DOMAIN table : WordSearch(table[i][1], t)},
        LAMBDA hits : IF hits = {} THEN 0 ELSE CHOOSE i \in hits : \A j \in hits : i <= j)

\* mutant: the site table is tried before the app table
match_open_site_first(t) ==
    LET a == FirstMatch(app_map, t)
        s == FirstMatch(site_map, t)
    IN  IF s # 0 THEN ParseResult(Str(S_open_url), Dict(<< <<K_url, Str(site_map[s][2])>> >>))
        ELSE IF a # 0 THEN ParseResult(Str(S_open_app), Dict(<< <<K_app, app_map[a][2]>> >>))
        ELSE IF WordSearch(N_edge, t) \/ WordSearch(N_browser, t)
             THEN ParseResult(Str(S_open_app), Dict(<< <<K_app, AppTarget(S_app, N_msedge)>> >>))
        ELSE IF WordSearch(N_chrome, t)
             THEN ParseResult(Str(S_open_app), Dict(<< <<K_app, AppTarget(S_app, N_chrome)>> >>))
        ELSE None

\* the block under  if "open" in t:  the result it returns, None when it falls through
match_open(t) ==
    LET a == FirstMatch(app_map, t)
        s == FirstMatch(site_map, t)
    IN  IF a # 0 THEN ParseResult(Str(S_open_app), Dict(<< <<K_app, app_map[a][2]>> >>))
        ELSE IF s # 0 THEN ParseResult(Str(S_open_url), Dict(<< <<K_url, Str(site_map[s][2])>> >>))
        ELSE IF WordSearch(N_edge, t) \/ WordSearch(N_browser, t)
             THEN ParseResult(Str(S_open_app), Dict(<< <<K_app, AppTarget(S_app, N_msedge)>> >>))
        ELSE IF WordSearch(N_chrome, t)
             THEN ParseResult(Str(S_open_app), Dict(<< <<K_app, AppTarget(S_app, N_chrome)>> >>))
        ELSE None

\* for cmd in config.get("allowed_commands", []): if cmd.lower() in t: intent = cmd
scan_allowed_commands(t, cfg) ==
    Let(get(cfg, K_allowed_commands, List(<<>>))[2], LAMBDA cmds :
        Let({i \in DOMAIN cmds : Contains(t, lower(cmds[i][2]))}, LAMBDA hits :
            IF hits = {} THEN ParseResult(Str(S_unknown), Dict(<<>>))
            ELSE ParseResult(cmds[CHOOSE i \in hits : \A j \in hits : i <= j], Dict(<<>>))))

\* mutant: the tables are searched whether or not the text contains "open"
_rule_based_parse_any_text(txt, cfg) ==
    Let(apply_aliases(lower(txt), 1), LAMBDA t :
        Let(match_open(t), LAMBDA opened :
            IF opened # None THEN opened
            ELSE IF Contains(t, N_what) /\ Contains(t, N_time)
                 THEN ParseResult(Str(S_tell_time), Dict(<<>>))
            ELSE scan_allowed_commands(t, cfg)))

_rule_based_parse(txt, cfg) ==
    Let(apply_aliases(lower(txt), 1), LAMBDA t :
        Let(IF Contains(t, N_open) THEN match_open(t) ELSE None, LAMBDA opened :
            IF opened # None THEN opened
            ELSE IF Contains(t, N_what) /\ Contains(t, N_time)
                 THEN ParseResult(Str(S_tell_time), Dict(<<>>))
            ELSE scan_allowed_commands(t, cfg)))

\* ollama_exec = config.get("ollama_path") if it is a str, else None
ollama_exec(cfg) ==
    IF isinstance_str(get(cfg, K_ollama_path, None)) THEN get(cfg, K_ollama_path, None) ELSE None

\* use_llm and _ollama_available(ollama_exec)
llm_enabled(cfg, env) ==
    bool(get(cfg, K_use_ollama, False)) /\ _ollama_available(ollama_exec(cfg), env)

\* mutant: the decider flag alone turns the decider on
decider_enabled_by_flag(cfg, env) ==
    bool(get(cfg, K_use_ollama_decider, False)) /\ _ollama_available(ollama_exec(cfg), env)

\* mutant: the decider looks for the executable on PATH only
decider_enabled_on_path(cfg, env) ==
    bool(get(cfg, K_use_ollama_decider, False)) /\ bool(get(cfg, K_use_ollama, False))
        /\ _ollama_available(None, env)

\* config.get("use_ollama_decider", False) and use_llm and _ollama_available(ollama_exec)
decider_enabled(cfg, env) ==
    bool(get(cfg, K_use_ollama_decider, False)) /\ llm_enabled(cfg, env)

\* mutant: any decoded reply is taken as the decider's action
decider_accepts_any(p) == bool(p)

\* the decider's reply is accepted: parsed and isinstance(parsed.get("action"), dict)
decider_accepts(p) == bool(p) /\ isinstance_dict(get(p, K_action, None))

\* the extraction reply is accepted
extract_accepts(p) ==
    /\ bool(p)
    /\ isinstance_str(get(p, K_intent, None))
    /\ isinstance_dict(get(p, K_entities, Dict(<<>>)))

(***************************************************************************)
(* The environment                                                         *)
(*                                                                         *)
(* world.which: shutil.which("ollama") finds the executable; world.path: the *)
(* file named by ollama_path exists; world.runs: what a run of the model   *)
(* process can do.                                                         *)
(***************************************************************************)
T_1 == <<"2","0","2","6","-","1","1","-","0","5"," ","1","0",":","0","0",":","0","0">>

T_2 == <<"2","0","2","6","-","1","1","-","0","5"," ","1","0",":","0","0",":","0","1">>

V_u == <<"u">>

V_go == <<"g","o">>

V_none == <<"n","o","n","e">>

V_mapped == <<"z","z","z">>

V_marked == <<"(","d","r","y","-","r","u","n",")"," ","x">>

V_play == <<"p","l","a","y">>

V_sure == <<"S","u","r","e",","," ","h","e","r","e"," ","i","t"," ","i","s",":">>

V_path == <<"C",":","/","o","l","l","a","m","a",".","e","x","e">>

V_old == <<"o","l","d">>

\* what time.strftime can return
Clock == {T_1, T_2}

Action(pairs) == Dict(<< <<K_action, Dict(pairs)>> >>)

\* replies a model can give to the decider prompt
DeciderReplies ==
    { Action(<< <<K_type, Str(S_open_url)>>, <<K_url, Str(U_github)>> >>),
      Action(<< <<K_type, Str(S_open_url)>>, <<K_url, Str(V_marked)>> >>),
      Action(<< <<K_type, Str(S_open_url)>> >>),
      Action(<< <<K_type, Str(S_open_app)>>, <<K_app, Str(N_spotify)>> >>),
      Action(<< <<K_type, Str(S_open_app)>>, <<K_app, AppTarget(S_protocol, U_xbox)>> >>),
      Action(<< <<K_type, Str(S_open_app)>>, <<K_app, AppTarget(V_mapped, V_u)>> >>),
      Action(<< <<K_type, Str(S_tell_time)>> >>),
      Action(<< <<K_type, Str(V_none)>> >>),
      Action(<<>>),
      Dict(<< <<K_action, Str(V_go)>> >>),
      Dict(<< <<K_action, None>> >>) }

\* replies a model can give to the extraction prompt
ExtractReplies ==
    { ParseResult(Str(S_open_url), Dict(<< <<K_url, Str(U_github)>> >>)),
      ParseResult(Str(S_open_url), Dict(<<>>)),
      ParseResult(Str(S_open_url), Dict(<< <<K_url, Str(V_u)>>, <<K_action, Str(V_go)>> >>)),
      ParseResult(Str(S_open_url), Dict(<< <<K_url, Str(V_u)>>,
                                           <<K_action, Dict(<< <<K_type, Str(S_tell_time)>> >>)>> >>)),
      ParseResult(Str(S_open_app), Dict(<< <<K_app, Str(N_spotify)>> >>)),
      ParseResult(Str(S_open_app), Dict(<< <<K_app, Str(<<>>)>> >>)),
      ParseResult(Str(S_tell_time), Dict(<<>>)),
      ParseResult(Str(V_play), Dict(<<>>)),
      ParseResult(Str(<<>>), Dict(<<>>)),
      ParseResult(Number(5), Dict(<<>>)),
      ParseResult(Str(S_tell_time), List(<<>>)),
      ParseResult(None, Dict(<<>>)),
      Dict(<< <<K_intent, Str(S_open_url)>> >>),
      Dict(<< <<K_entities, Dict(<< <<K_url, Str(V_u)>> >>)>> >>),
      Dict(<<>>) }

\* every way a run of the model process can go
AllRuns ==
    {Throws(e) : e \in {"FileNotFoundError", "TimeoutExpired", "OSError"}}
    \cup {Exits(dumps(r), <<>>) : r \in DeciderReplies \cup ExtractReplies}
    \cup { Exits(<<>>, <<>>),
           Exits(<<Junk(V_sure)>>, <<>>),
           Exits(<<Junk(V_sure), NL>> \o dumps(Action(<< <<K_type, Str(S_tell_time)>> >>)) \o <<NL>>, <<>>),
           Exits(dumps(Action(<<>>)) \o <<NL>> \o dumps(Dict(<<>>)), <<>>),
           Exits(<<Punct("{"), Tok("str", K_action), Punct(":")>>, <<Junk(V_sure)>>),
           Exits(<<>>, <<Junk(V_sure)>>),
           Exits(<<>>, dumps(Action(<< <<K_type, Str(S_open_url)>>, <<K_url, Str(U_github)>> >>))),
           Exits(<<NL>>, dumps(ParseResult(Str(S_tell_time), Dict(<<>>)))) }

\* the runs of the session specification: one of each kind
FewRuns ==
    { Throws("TimeoutExpired"),
      Exits(<<Junk(V_sure)>>, <<>>),
      Exits(dumps(Action(<< <<K_type, Str(S_open_url)>>, <<K_url, Str(U_github)>> >>)), <<>>),
      Exits(dumps(Action(<< <<K_type, Str(V_none)>> >>)), <<>>),
      Exits(dumps(ParseResult(Str(S_open_app), Dict(<< <<K_app, Str(N_spotify)>> >>))), <<>>),
      Exits(dumps(ParseResult(Str(S_open_url), Dict(<< <<K_url, Str(V_u)>>, <<K_action, Str(V_go)>> >>))), <<>>) }

Worlds(runs) == [which : BOOLEAN, path : BOOLEAN, runs : {runs}, tts : {"absent"}]

(***************************************************************************)
(* Inputs                                                                  *)
(***************************************************************************)
X_open_github == <<"h","e","y"," ","g","n","g"," ","o","p","e","n"," ","g","i","t","h","u","b">>

X_wake == <<"h","e","y"," ","g","n","g">>

X_hello == <<"h","e","l","l","o"," ","w","o","r","l","d">>

X_time == <<"H","e","y"," ","G","N","G"," ","w","h","a","t"," ","t","i","m","e"," ","i","s"," ","i","t">>

X_open_xbox == <<"o","p","e","n"," ","x","b","o","x">>

X_twice == <<"h","e","y"," ","g","n","g"," ","h","e","y"," ","g","n","g">>

W_computer == <<"C","o","m","p","u","t","e","r">>

X_computer == <<"c","o","m","p","u","t","e","r"," ","o","p","e","n"," ","s","p","o","t","i","f","y">>

X_Computer == <<"C","o","m","p","u","t","e","r">>

C_open_github == <<"o","p","e","n"," ","g","i","t","h","u","b">>

C_open_xbox == <<"o","p","e","n"," ","x","b","o","x">>

C_time == <<"W","h","a","t"," ","t","i","m","e"," ","i","s"," ","i","t">>

C_mic_store == <<"o","p","e","n"," ","m","i","c"," ","s","t","o","r","e">>

C_play == <<"p","l","a","y"," ","m","u","s","i","c">>

C_chrome == <<"p","l","e","a","s","e"," ","o","p","e","n"," ","c","h","r","o","m","e">>

C_hello == <<"h","e","l","l","o">>

P_open == <<"o","p","e","n">>

P_Open == <<"O","p","e","n">>

P_reopen == <<"r","e","o","p","e","n">>

P_xbox == <<"x","b","o","x">>

P_github == <<"g","i","t","h","u","b">>

P_githubs == <<"g","i","t","h","u","b","s">>

P_mic_store == <<"m","i","c"," ","s","t","o","r","e">>

P_chrome == <<"c","h","r","o","m","e">>

P_browser == <<"b","r","o","w","s","e","r">>

P_what_time == <<"w","h","a","t"," ","t","i","m","e">>

A_Time == <<"T","i","m","e">>

\* what stt.listen can return to the console loop (it strips its result)
Utterances == {<<>>, X_open_github, X_wake, X_hello, X_time, X_open_xbox, X_twice, X_computer, X_Computer}

\* command texts given to parse_intent
Commands == {C_open_github, C_open_xbox, C_time, C_mic_store, C_play, C_chrome, C_hello}

Phrases == {P_open, P_Open, P_reopen, P_xbox, P_github, P_githubs, P_mic_store, P_chrome, P_browser, P_what_time}

RECURSIVE PhraseSeqs(_)
PhraseSeqs(n) ==
    IF n = 0 THEN {<<>>}
    ELSE PhraseSeqs(n - 1) \cup {Append(s, p) : s \in {q \in PhraseSeqs(n - 1) : Len(q) = n - 1}, p \in Phrases}

\* the texts of at most MaxPhrases phrases given to the rule-based parser
RuleTexts == {Join(s, <<" ">>) : s \in PhraseSeqs(MaxPhrases)}

\* a config key left out, or set to one of vals
Opt(key, vals) == {<<>>} \cup {<< <<key, v>> >> : v \in vals}

ExecConfigs ==
    {Dict(a \o b) : a \in Opt(K_allow_execution, {True, False}), b \in Opt(K_allow_tts, {True})}

RuleConfigs ==
    {Dict(a) : a \in Opt(K_allowed_commands, {List(<<Str(P_open)>>), List(<<Str(A_Time), Str(P_xbox)>>)})}

ParseConfigs ==
    {Dict(a \o b \o c \o d \o e) :
        a \in Opt(K_use_ollama, {True}), b \in Opt(K_use_ollama_decider, {True}),
        c \in Opt(K_ollama_path, {Str(V_path)}), d \in Opt(K_allow_execution, {True}),
        e \in Opt(K_allowed_commands, {List(<<Str(V_play)>>)})}

SessionConfigs ==
    {Dict(a \o b \o c \o d \o e) :
        a \in Opt(K_always_listen, {True, False}), b \in Opt(K_wake_word, {Str(W_computer)}),
        c \in Opt(K_allow_execution, {True, False}), d \in Opt(K_use_ollama, {True}),
        e \in Opt(K_use_ollama_decider, {True})}

\* the intents and entities execute is called with
Intents == {None, Str(S_open_url), Str(S_open_app), Str(S_tell_time), Str(S_execute), Str(S_unknown), Str(V_play)}

Urls == {None, Str(<<>>), Str(U_github), Str(V_marked), Number(0), Number(7)}

Apps == {None, Str(<<>>), Str(N_spotify), Str(V_marked), AppTarget(S_protocol, U_xbox), AppTarget(S_app, N_spotify),
         AppTarget(S_app, V_marked), AppTarget(V_mapped, V_u), Dict(<< <<K_type, Str(S_app)>> >>), Dict(<<>>)}

Actions ==
    {None, Str(<<>>), Str(V_go), List(<<Number(1)>>), Dict(<<>>), Dict(<< <<K_url, Str(V_u)>> >>)}
    \cup {Dict(<< <<K_type, Str(t)>> >>) : t \in {S_open_url, S_open_app, S_tell_time, V_none}}
    \cup {Dict(<< <<K_type, Str(S_open_url)>>, <<K_url, u>> >>) : u \in Urls}
    \cup {Dict(<< <<K_type, Str(S_open_app)>>, <<K_app, a>> >>) : a \in Apps}

EntitiesSet ==
    {None, List(<<>>), Dict(<<>>)}
    \cup {Dict(<< <<K_url, u>> >>) : u \in Urls}
    \cup {Dict(<< <<K_app, a>> >>) : a \in Apps}
    \cup {Dict(<< <<K_action, a>> >>) : a \in Actions}
    \cup {Dict(<< <<K_url, Str(V_u)>>, <<K_app, Str(N_spotify)>>, <<K_action, a>> >>) :
            a \in {None, Str(V_go), Dict(<< <<K_type, Str(S_tell_time)>> >>)}}

\* the memory load_memory() returns at start-up, and the file it was read from
Memories ==
    {Dict(<<>>),
     Dict(<< <<K_last_command, Dict(<< <<K_text, Str(V_old)>>, <<K_intent, Str(S_unknown)>>,
                                       <<K_entities, Dict(<<>>)>> >>)>> >>)}

(***************************************************************************)
(* nlp_model.parse_intent, one strategy per step                           *)
(***************************************************************************)
\* lines 148-169: the LLM-decider path
Decider ==
    /\ pc = "decider"
    /\ IF decider_enabled(config, world)
       THEN \E run \in world.runs :
              \E c \in {_call_ollama(run)} : \E p \in {_extract_json(c.out)} :
                  /\ calls' = Append(calls, <<"ollama.decider", Str(cmd)>>)
                  /\ IF c.raised THEN parsed' = parsed /\ pc' = "crashed"
                     ELSE IF decider_accepts(p)
                     THEN /\ parsed' = ParseResult(Str(S_execute), Dict(<< <<K_action, get(p, K_action, None)>> >>))
                          /\ pc' = "execute"
                     ELSE /\ parsed' = parsed
                          /\ pc' = "extract"
       ELSE /\ pc' = "extract"
            /\ UNCHANGED <<parsed, calls>>
    /\ UNCHANGED <<config, world, memory, disk, text, cmd, result, out, threads, queue, ui>>

\* lines 171-184: the LLM-extraction path
Extract ==
    /\ pc = "extract"
    /\ IF llm_enabled(config, world)
       THEN \E run \in world.runs :
              \E c \in {_call_ollama(run)} : \E p \in {_extract_json(c.out)} :
                  /\ calls' = Append(calls, <<"ollama.extract", Str(cmd)>>)
                  /\ IF c.raised THEN parsed' = parsed /\ pc' = "crashed"
                     ELSE IF extract_accepts(p)
                     THEN /\ parsed' = ParseResult(get(p, K_intent, None), get(p, K_entities, Dict(<<>>)))
                          /\ pc' = "execute"
                     ELSE /\ parsed' = parsed
                          /\ pc' = "rule"
       ELSE /\ pc' = "rule"
            /\ UNCHANGED <<parsed, calls>>
    /\ UNCHANGED <<config, world, memory, disk, text, cmd, result, out, threads, queue, ui>>

\* line 187: the rule-based fallback
Rule ==
    /\ pc = "rule"
    /\ parsed' = _rule_based_parse(cmd, config)
    /\ calls' = Append(calls, <<"_rule_based_parse", Str(cmd)>>)
    /\ pc' = "execute"
    /\ UNCHANGED <<config, world, memory, disk, text, cmd, result, out, threads, queue, ui>>

(***************************************************************************)
(* main.process_text and main.run_interactive                              *)
(***************************************************************************)
Handled(key, val) == Dict(<< <<K_handled, True>>, <<key, val>> >>)

NotHandled == Dict(<< <<K_handled, False>>, <<K_reason, Str(S_wake_word_not_detected)>> >>)

\* mutant: an utterance without the wake word is taken as a command
gate_ignores_wake_word(utterance, cfg) ==
    Let(lower(utterance), LAMBDA text_l :
        Let(lower(get(cfg, K_wake_word, Str(S_hey_gng))[2]), LAMBDA wake :
            IF ~bool(get(cfg, K_always_listen, False))
            THEN Str(strip(ReplaceFirst(text_l, wake, <<>>)))
            ELSE Str(text_l)))

\* mutant: the wake word is left in the command
gate_keeps_wake_word(utterance, cfg) ==
    Let(lower(utterance), LAMBDA text_l :
        Let(lower(get(cfg, K_wake_word, Str(S_hey_gng))[2]), LAMBDA wake :
            IF ~bool(get(cfg, K_always_listen, False))
            THEN IF ~Contains(text_l, wake) THEN None
                 ELSE Str(strip(text_l))
            ELSE Str(text_l)))

\* lines 74-82: the command of an utterance that passes the gate, None for one
\* the gate rejects
gate(utterance, cfg) ==
    Let(lower(utterance), LAMBDA text_l :
        Let(lower(get(cfg, K_wake_word, Str(S_hey_gng))[2]), LAMBDA wake :
            IF ~bool(get(cfg, K_always_listen, False))
            THEN IF ~Contains(text_l, wake) THEN None
                 ELSE Str(strip(ReplaceFirst(text_l, wake, <<>>)))
            ELSE Str(text_l)))

\* run_interactive lines 110-117: text = stt.listen(); an empty text is skipped
Listen ==
    /\ pc = "listen"
    /\ \E u \in Utterances :
         IF u = <<>> THEN UNCHANGED <<pc, text>>
         ELSE text' = u /\ pc' = "gate"
    /\ UNCHANGED <<config, world, memory, disk, cmd, parsed, result, out, calls, threads, queue, ui>>

\* run_interactive lines 113-115: KeyboardInterrupt or EOFError out of stt.listen
Interrupt ==
    /\ pc = "listen"
    /\ pc' = "exited"
    /\ UNCHANGED <<config, world, memory, disk, text, cmd, parsed, result, out, calls, threads, queue, ui>>

\* process_text lines 74-87: the wake-word gate, up to the call of parse_intent
Gate ==
    /\ pc = "gate"
    /\ \E c \in {gate(text, config)} :
           IF c = None
           THEN out' = NotHandled /\ pc' = "report" /\ UNCHANGED <<cmd, calls>>
           ELSE IF ~bool(c)
           THEN out' = Handled(K_response, Str(S_Yes)) /\ pc' = "report" /\ UNCHANGED <<cmd, calls>>
           ELSE /\ cmd' = c[2]
                /\ calls' = Append(calls, <<"parse_intent", c>>)
                /\ pc' = "decider"
                /\ out' = out
    /\ UNCHANGED <<config, world, memory, disk, text, parsed, result, threads, queue, ui>>

\* process_text line 90: result = executor.execute(intent, entities, config),
\* tts.speak included
Execute ==
    /\ pc = "execute"
    /\ \E fails \in BOOLEAN, now \in Clock :
         \E r \in {with_tts(execute(get(parsed, K_intent, None), get(parsed, K_entities, None),
                                      config, fails, now), world.tts)} :
             /\ calls' = Append(calls, <<"execute", parsed>>) \o r.calls
             /\ result' = r.res
             /\ pc' = IF r.raised THEN "crashed" ELSE "store"
    /\ UNCHANGED <<config, world, memory, disk, text, cmd, parsed, out, threads, queue, ui>>

\* process_text lines 93-96: memory["last_command"] = ...; save_memory(memory); return
Store ==
    /\ pc = "store"
    /\ \E mem \in {setitem(memory, K_last_command,
                              Dict(<< <<K_text, Str(cmd)>>, <<K_intent, get(parsed, K_intent, None)>>,
                                      <<K_entities, get(parsed, K_entities, None)>> >>))} :
           /\ memory' = mem
           /\ disk' = dumps(mem)
           /\ calls' = Append(calls, <<"save_memory", mem>>)
    /\ out' = Dict(<< <<K_handled, True>>, <<K_parsed, parsed>>, <<K_result, result>> >>)
    /\ pc' = "report"
    /\ UNCHANGED <<config, world, text, cmd, parsed, result, threads, queue, ui>>

\* run_interactive lines 119-122: print the outcome, then the next iteration
Report ==
    /\ pc = "report"
    /\ pc' = "listen"
    /\ text' = <<>> /\ cmd' = <<>> /\ parsed' = None /\ result' = None /\ out' = None /\ calls' = <<>>
    /\ UNCHANGED <<config, world, memory, disk, threads, queue, ui>>

(***************************************************************************)
(* gui.AssistantUI: the listener thread, the worker threads it and the     *)
(* entry start, and the Tk thread that polls the queue                     *)
(***************************************************************************)
\* worker threads alive at one time
MaxThreads == 2

\* events waiting in self.queue
MaxQueue == 2

\* what stt.listen returns
Heard == {<<>>, X_open_github}

\* what the entry holds when Return is pressed
Typed == {<<>>, X_hello}

\* no window is open: the console and the function-level specifications
NoWindow == threads = <<>> /\ queue = <<>> /\ ui = None

\* mutant: the checkboxes start as the loaded config has them
Window_as_loaded ==
    [status_label |-> <<"Idle", <<>>>>, listening |-> FALSE, anim |-> FALSE, reset_due |-> FALSE,
     allow_exec_var |-> bool(get(config, K_allow_execution, True)),
     use_ollama_var |-> bool(get(config, K_use_ollama, True)),
     ollama_decider_var |-> bool(get(config, K_use_ollama_decider, True))]

\* __init__ lines 67-105: the status label, the flags and the checkboxes;
\* reset_due: a _reset callback is scheduled
Window ==
    [status_label |-> <<"Idle", <<>>>>, listening |-> FALSE, anim |-> FALSE, reset_due |-> FALSE,
     allow_exec_var |-> TRUE, use_ollama_var |-> TRUE, ollama_decider_var |-> TRUE]

\* cfg = self.config.copy(); cfg[...] = the checkboxes; cfg["always_listen"] = True
GuiConfig ==
    setitem(setitem(setitem(setitem(config,
        K_allow_execution, Bool(ui.allow_exec_var)),
        K_use_ollama, Bool(ui.use_ollama_var)),
        K_use_ollama_decider, Bool(ui.ollama_decider_var)),
        K_always_listen, True)

\* Thread(target=..., args=(text, cfg), daemon=True)
Thread(target, recognized, cfg) ==
    [target |-> target, text |-> recognized, cfg |-> cfg, pc |-> "process",
     cmd |-> <<>>, parsed |-> None, result |-> None, res |-> None]

\* thread 0 runs _auto_listen_loop, the others are the workers
Listener == 0

Alive == DOMAIN threads \ {Listener}

\* Thread(...).start()
start(th) ==
    LET id == CHOOSE i \in 1..MaxThreads : i \notin Alive /\ \A j \in 1..(i - 1) : j \in Alive
    IN  [i \in DOMAIN threads \cup {id} |-> IF i = id THEN th ELSE threads[i]]

\* the thread function returned, or an exception ended it
exit(t) == [i \in DOMAIN threads \ {t} |-> threads[i]]

at(t, th) == [threads EXCEPT ![t] = th]

\* mutant: the event is lost
put_lost(q, kind, txt, payload) == q

put(q, kind, txt, payload) == Append(q, <<kind, txt, payload>>)

\* _auto_listen_loop lines 174-204: the top of an iteration, up to the first
\* event it queues: "simulated" without a microphone, else "loading"
ListenBegin ==
    /\ threads[Listener].pc = "loop"
    /\ Len(queue) < MaxQueue
    /\ \E th \in {[threads[Listener] EXCEPT !.cfg = GuiConfig]} :
         IF ~world.mic
         THEN /\ queue' = put(queue, "stt_status", "simulated", None)
              /\ threads' = at(Listener, [th EXCEPT !.pc = "simulated"])
         ELSE /\ queue' = put(queue, "stt_status", "loading", None)
              /\ threads' = at(Listener, [th EXCEPT !.pc = "loading"])
    /\ UNCHANGED <<ui, config, world, memory, disk, pc, text, cmd, parsed, result, out, calls>>

\* lines 199-203: self.queue.put(("focus_entry", None, None)); sleep; continue
ListenSimulated ==
    /\ threads[Listener].pc = "simulated"
    /\ Len(queue) < MaxQueue
    /\ queue' = put(queue, "focus_entry", None, None)
    /\ threads' = at(Listener, [threads[Listener] EXCEPT !.pc = "loop"])
    /\ UNCHANGED <<ui, config, world, memory, disk, pc, text, cmd, parsed, result, out, calls>>

\* stt.listen lines 90-92: status_cb("listening") once the model is loaded
ListenLoaded ==
    /\ threads[Listener].pc = "loading"
    /\ Len(queue) < MaxQueue
    /\ queue' = put(queue, "stt_status", "listening", None)
    /\ threads' = at(Listener, [threads[Listener] EXCEPT !.pc = "listening"])
    /\ UNCHANGED <<ui, config, world, memory, disk, pc, text, cmd, parsed, result, out, calls>>

\* lines 204-217: stt.listen returns; nothing heard is reported as idle, an
\* utterance is handed to a new worker thread and the loop goes on
ListenHeard ==
    /\ threads[Listener].pc = "listening"
    /\ \E recognized \in Heard, th \in {threads[Listener]} :
         IF recognized = <<>>
         THEN /\ Len(queue) < MaxQueue
              /\ queue' = put(queue, "status", "idle", None)
              /\ threads' = at(Listener, [th EXCEPT !.pc = "loop"])
         ELSE /\ Cardinality(Alive) < MaxThreads
              /\ queue' = queue
              /\ threads' = [start(Thread("_process_and_queue", recognized, th.cfg))
                                EXCEPT ![Listener] = [th EXCEPT !.pc = "loop"]]
    /\ UNCHANGED <<ui, config, world, memory, disk, pc, text, cmd, parsed, result, out, calls>>

\* _on_manual_enter: Return pressed in the entry; an empty entry is ignored
ManualEnter ==
    /\ pc = "running"
    /\ \E typed \in Typed :
         IF strip(typed) = <<>> THEN UNCHANGED <<threads, ui>>
         ELSE /\ Cardinality(Alive) < MaxThreads
              /\ ui' = [ui EXCEPT !.status_label = <<"Processing...", <<>>>>]
              /\ threads' = start(Thread("_process_text_worker", strip(typed), GuiConfig))
    /\ UNCHANGED <<queue, config, world, memory, disk, pc, text, cmd, parsed, result, out, calls>>

\* process_text lines 72-90 on a worker thread: the gate, parse_intent (the
\* rule-based path where no model executable exists) and execute;
\* _process_and_queue catches what execute raises, _process_text_worker dies of it
WorkerProcess(t) ==
    /\ t \in Alive /\ threads[t].pc = "process"
    /\ ~llm_enabled(threads[t].cfg, world)
    /\ \E th \in {threads[t]} : \E c \in {gate(th.text, th.cfg)} :
         IF c = None THEN threads' = at(t, [th EXCEPT !.res = NotHandled, !.pc = "put"])
         ELSE IF ~bool(c)
         THEN threads' = at(t, [th EXCEPT !.res = Handled(K_response, Str(S_Yes)), !.pc = "put"])
         ELSE \E p \in {_rule_based_parse(c[2], th.cfg)}, fails \in BOOLEAN, now \in Clock :
                \E r \in {with_tts(execute(get(p, K_intent, None), get(p, K_entities, None),
                                             th.cfg, fails, now), world.tts)} :
                  threads' =
                    IF ~r.raised
                    THEN at(t, [th EXCEPT !.cmd = c[2], !.parsed = p, !.result = r.res, !.pc = "assign"])
                    ELSE IF th.target = "_process_and_queue"
                    THEN at(t, [th EXCEPT !.res = Dict(<< <<K_ok, False>>, <<K_error, r.res>> >>),
                                          !.pc = "put"])
                    ELSE exit(t)
    /\ UNCHANGED <<queue, ui, config, world, memory, disk, pc, text, cmd, parsed, result, out, calls>>

\* process_text line 93 on a worker thread: memory["last_command"] = {...}
WorkerAssign(t) ==
    /\ t \in Alive /\ threads[t].pc = "assign"
    /\ \E th \in {threads[t]} :
         /\ memory' = setitem(memory, K_last_command,
                              Dict(<< <<K_text, Str(th.cmd)>>, <<K_intent, get(th.parsed, K_intent, None)>>,
                                      <<K_entities, get(th.parsed, K_entities, None)>> >>))
         /\ threads' = at(t, [th EXCEPT !.pc = "save"])
    /\ UNCHANGED <<queue, ui, config, world, disk, pc, text, cmd, parsed, result, out, calls>>

\* process_text lines 94-96 on a worker thread: save_memory(memory); return.
\* Where the memory file cannot be written, open() raises out of process_text:
\* _process_and_queue catches it, _process_text_worker dies of it
WorkerSave(t) ==
    /\ t \in Alive /\ threads[t].pc = "save"
    /\ \E th \in {threads[t]} :
         IF world.readonly
         THEN /\ disk' = disk
              /\ threads' =
                   IF th.target = "_process_and_queue"
                   THEN at(t, [th EXCEPT !.pc = "put",
                                         !.res = Dict(<< <<K_ok, False>>, <<K_error, Str(E_PermissionError)>> >>)])
                   ELSE exit(t)
         ELSE /\ disk' = dumps(memory)
              /\ threads' = at(t, [th EXCEPT !.pc = "put",
                                        !.res = Dict(<< <<K_handled, True>>, <<K_parsed, th.parsed>>,
                                                        <<K_result, th.result>> >>)])
    /\ UNCHANGED <<queue, ui, config, world, memory, pc, text, cmd, parsed, result, out, calls>>

\* self.queue.put(("result", text, res)), the last statement of the thread
WorkerPut(t) ==
    /\ t \in Alive /\ threads[t].pc = "put"
    /\ Len(queue) < MaxQueue
    /\ queue' = put(queue, "result", threads[t].text, threads[t].res)
    /\ threads' = exit(t)
    /\ UNCHANGED <<ui, config, world, memory, disk, pc, text, cmd, parsed, result, out, calls>>

\* _append_result: short = str(text); if len(short) > 60: short = short[:57] + '...'
short(x) ==
    Let(str(x), LAMBDA s : IF Len(s) > 60 THEN SubSeq(s, 1, 57) \o <<".", ".", ".">> ELSE s)

\* self.listening = True; self._start_anim()
_start_anim(u) == [u EXCEPT !.listening = TRUE, !.anim = TRUE]

\* self._stop_anim(); self.listening = False
_stop_anim(u) == [u EXCEPT !.listening = FALSE, !.anim = FALSE]

\* the body of the while loop of _poll_queue for one event
render(u, item) ==
    LET kind == item[1]
    IN  IF kind = "status"
        THEN IF item[2] = "listening"
             THEN [_start_anim(u) EXCEPT !.status_label = <<"Listening...", <<>>>>]
             ELSE [_stop_anim(u) EXCEPT !.status_label = <<"Idle", <<>>>>]
        ELSE IF kind = "focus_entry"
        THEN [u EXCEPT !.status_label = <<"No mic", <<>>>>]
        ELSE IF kind = "stt_status"
        THEN IF item[2] = "loading"
             THEN [_stop_anim(u) EXCEPT !.status_label = <<"Loading model...", <<>>>>]
             ELSE IF item[2] = "listening"
             THEN [_start_anim(u) EXCEPT !.status_label = <<"Listening...", <<>>>>]
             ELSE IF item[2] = "simulated"
             THEN [_stop_anim(u) EXCEPT !.status_label = <<"Simulated input", <<>>>>]
             ELSE u
        ELSE IF kind = "result"
        THEN [_stop_anim(u) EXCEPT !.status_label = <<"short", short(Str(str(item[3])))>>,
                                   !.reset_due = TRUE]
        ELSE u

RECURSIVE drain(_, _)
\* while True: item = self.queue.get_nowait(); ...; until queue.Empty
drain(u, q) == IF q = <<>> THEN u ELSE drain(render(u, Head(q)), Tail(q))

\* _poll_queue on the Tk thread, every 200 ms
PollQueue ==
    /\ pc = "running"
    /\ ui' = drain(ui, queue)
    /\ queue' = <<>>
    /\ UNCHANGED <<threads, config, world, memory, disk, pc, text, cmd, parsed, result, out, calls>>

\* _reset, 3.5 s after _append_result: the status label goes back to Idle;
\* another _reset may still be scheduled
Reset ==
    /\ pc = "running"
    /\ ui.reset_due
    /\ \E more \in BOOLEAN :
         ui' = [ui EXCEPT !.status_label = <<"Idle", <<>>>>, !.reset_due = more]
    /\ UNCHANGED <<threads, queue, config, world, memory, disk, pc, text, cmd, parsed, result, out, calls>>

(***************************************************************************)
(* __main__.main and cli.main: the argument list and the config overrides  *)
(* handed to run_interactive or run_test.  An argument is a TLA+ string.   *)
(***************************************************************************)
\* arguments on one command line
MaxArgs == 3

K_debug_llm == <<"d","e","b","u","g","_","l","l","m">>

V_phi3 == <<"p","h","i","3">>

\* action="store_true" options
Flags == {"--allow-exec", "--allow-tts", "--use-ollama", "--use-ollama-decider",
          "--always-listen", "--debug-llm"}

\* type=str options, which take the next argument as their value
Valued == {"--ollama-path", "--llm-model"}

\* choices=["run", "test"]
Modes == {"run", "test"}

Arguments == Flags \cup Valued \cup Modes \cup {"x"}

\* the characters of an argument that can be a value
ArgChars(a) ==
    CASE a = "run"  -> <<"r","u","n">>
      [] a = "test" -> <<"t","e","s","t">>
      [] OTHER      -> <<"x">>

\* the Namespace before any argument is read; mode "" is the positional not given
Namespace ==
    [error |-> FALSE, mode |-> "", allow_exec |-> FALSE, allow_tts |-> FALSE, use_ollama |-> FALSE,
     use_ollama_decider |-> FALSE, always_listen |-> FALSE, debug_llm |-> FALSE,
     ollama_path |-> None, llm_model |-> Str(V_phi3)]

store_true(ns, flag) ==
    CASE flag = "--allow-exec"         -> [ns EXCEPT !.allow_exec = TRUE]
      [] flag = "--allow-tts"          -> [ns EXCEPT !.allow_tts = TRUE]
      [] flag = "--use-ollama"         -> [ns EXCEPT !.use_ollama = TRUE]
      [] flag = "--use-ollama-decider" -> [ns EXCEPT !.use_ollama_decider = TRUE]
      [] flag = "--always-listen"      -> [ns EXCEPT !.always_listen = TRUE]
      [] OTHER                         -> [ns EXCEPT !.debug_llm = TRUE]

store(ns, option, value) ==
    IF option = "--ollama-path" THEN [ns EXCEPT !.ollama_path = Str(ArgChars(value))]
    ELSE [ns EXCEPT !.llm_model = Str(ArgChars(value))]

RECURSIVE scan(_, _, _)
\* argparse: options in any order, a value must not look like an option, one
\* positional out of the choices; anything else is an error (SystemExit)
scan(argv, i, ns) ==
    IF i > Len(argv) THEN [ns EXCEPT !.mode = IF @ = "" THEN "run" ELSE @]
    ELSE IF argv[i] \in Flags THEN scan(argv, i + 1, store_true(ns, argv[i]))
    ELSE IF argv[i] \in Valued
         THEN IF i + 1 <= Len(argv) /\ argv[i + 1] \notin Flags \cup Valued
              THEN scan(argv, i + 2, store(ns, argv[i], argv[i + 1]))
              ELSE [ns EXCEPT !.error = TRUE]
    ELSE IF argv[i] \in Modes /\ ns.mode = ""
         THEN scan(argv, i + 1, [ns EXCEPT !.mode = argv[i]])
    ELSE [ns EXCEPT !.error = TRUE]

\* parser.parse_args(argv)
parse_args(argv) == scan(argv, 1, Namespace)

\* if flag: config_overrides[key] = value
override(d, flag, key, value) == IF flag THEN setitem(d, key, value) ELSE d

\* mutant: the decider is taken as requested without enabling execution
decider_implies_execution_off(d) == d

\* if config_overrides.get("use_ollama_decider") and not
\* config_overrides.get("allow_execution"): config_overrides["allow_execution"] = True
decider_implies_execution(d) ==
    IF bool(get(d, K_use_ollama_decider, None)) /\ ~bool(get(d, K_allow_execution, None))
    THEN setitem(d, K_allow_execution, True)
    ELSE d

\* __main__.main lines 40-42: the defaults of a bare invocation
module_defaults ==
    Dict(<< <<K_use_ollama, True>>, <<K_use_ollama_decider, True>>, <<K_allow_execution, True>> >>)

\* __main__.main lines 31-66
module_overrides(argv, args) ==
    IF argv = <<>> \/ (Len(argv) = 1 /\ argv[1] = "test") THEN module_defaults
    ELSE decider_implies_execution(
            override(override(override(override(override(override(override(override(Dict(<<>>),
                args.allow_exec, K_allow_execution, True),
                args.allow_tts, K_allow_tts, True),
                args.use_ollama, K_use_ollama, True),
                args.use_ollama_decider, K_use_ollama_decider, True),
                bool(args.ollama_path), K_ollama_path, args.ollama_path),
                bool(args.llm_model), K_llm_model, args.llm_model),
                args.always_listen, K_always_listen, True),
                args.debug_llm, K_debug_llm, True))

\* cli.main lines 54-77
cli_overrides(args) ==
    decider_implies_execution(
        override(override(override(override(override(override(override(override(Dict(<<>>),
            args.allow_exec, K_allow_execution, True),
            args.allow_tts, K_allow_tts, True),
            args.use_ollama, K_use_ollama, True),
            args.use_ollama_decider, K_use_ollama_decider, True),
            args.always_listen, K_always_listen, True),
            bool(args.ollama_path), K_ollama_path, args.ollama_path),
            bool(args.llm_model), K_llm_model, args.llm_model),
            args.debug_llm, K_debug_llm, True))

\* the argument list main was called with
Argv == calls[1][2]

\* the call main ends with: run_test(config_overrides=...) or
\* run_interactive(config_overrides=...)
session_loop(args) == IF args.mode = "test" THEN "run_test" ELSE "run_interactive"

\* python -m voice_assistant ...: __main__.main up to its last statement, or
\* SystemExit out of parse_args
ModuleMain ==
    /\ pc = "__main__.main"
    /\ \E args \in {parse_args(Argv)} :
         IF args.error
         THEN pc' = "SystemExit" /\ UNCHANGED <<config, calls>>
         ELSE \E d \in {module_overrides(Argv, args)} :
                /\ config' = d
                /\ pc' = session_loop(args)
                /\ calls' = Append(calls, <<session_loop(args), d>>)
    /\ UNCHANGED <<world, memory, disk, text, cmd, parsed, result, out, threads, queue, ui>>

\* python voice_assistant/cli.py ...: cli.main up to its last statement, or
\* SystemExit out of parse_args
CliMain ==
    /\ pc = "cli.main"
    /\ \E args \in {parse_args(Argv)} :
         IF args.error
         THEN pc' = "SystemExit" /\ UNCHANGED <<config, calls>>
         ELSE \E d \in {cli_overrides(args)} :
                /\ config' = d
                /\ pc' = session_loop(args)
                /\ calls' = Append(calls, <<session_loop(args), d>>)
    /\ UNCHANGED <<world, memory, disk, text, cmd, parsed, result, out, threads, queue, ui>>

(***************************************************************************)
(* Specifications                                                          *)
(***************************************************************************)
\* nothing of a turn is in progress
Fresh == text = <<>> /\ cmd = <<>> /\ parsed = None /\ result = None /\ out = None /\ calls = <<>>

\* the console session: run_interactive after load_config() and load_memory()
Init ==
    /\ NoWindow
    /\ config \in SessionConfigs
    /\ world \in {w \in Worlds(FewRuns) : ~w.path}
    /\ memory \in Memories
    /\ disk = IF memory = Dict(<<>>) THEN <<>> ELSE dumps(memory)
    /\ pc = "listen"
    /\ Fresh

Next == Listen \/ Interrupt \/ Gate \/ Decider \/ Extract \/ Rule \/ Execute \/ Store \/ Report

Spec == Init /\ [][Next]_vars

\* parse_intent(cmd, config) followed by execute, as process_text lines 87-90 run them
InitPipeline ==
    /\ NoWindow
    /\ config \in ParseConfigs
    /\ world \in Worlds(AllRuns)
    /\ memory = Dict(<<>>) /\ disk = <<>>
    /\ cmd \in Commands
    /\ text = cmd
    /\ pc = "decider"
    /\ parsed = None /\ result = None /\ out = None
    /\ calls = << <<"parse_intent", Str(cmd)>> >>

NextPipeline == Decider \/ Extract \/ Rule \/ Execute

SpecPipeline == InitPipeline /\ [][NextPipeline]_vars

\* the blocking model call is bounded by its timeout, so each strategy completes
LiveSpecPipeline == SpecPipeline /\ WF_vars(Decider) /\ WF_vars(Extract) /\ WF_vars(Rule)

\* _rule_based_parse(cmd, config) on every text of at most MaxPhrases phrases
InitRule ==
    /\ NoWindow
    /\ config \in RuleConfigs
    /\ world \in {w \in Worlds({}) : ~w.which /\ ~w.path}
    /\ memory = Dict(<<>>) /\ disk = <<>>
    /\ cmd \in RuleTexts
    /\ text = cmd
    /\ pc = "rule"
    /\ parsed = None /\ result = None /\ out = None
    /\ calls = << <<"parse_intent", Str(cmd)>> >>

NextRule == Rule

SpecRule == InitRule /\ [][NextRule]_vars

\* execute(intent, entities, config) on every intent and entities of the input
\* sets, with each state of the speech engine
InitExec ==
    /\ NoWindow
    /\ config \in ExecConfigs
    /\ world \in [which : {FALSE}, path : {FALSE}, runs : {{}}, tts : Engines]
    /\ memory = Dict(<<>>) /\ disk = <<>>
    /\ cmd = <<>> /\ text = <<>>
    /\ pc = "execute"
    /\ parsed \in {ParseResult(i, e) : i \in Intents, e \in EntitiesSet}
    /\ result = None /\ out = None
    /\ calls = <<>>

NextExec == Execute

SpecExec == InitExec /\ [][NextExec]_vars

\* the caller keeps the outcome record and runs process_text lines 87-90 once
\* more on the same text and the same config; out holds the first record
Again ==
    /\ pc = "store" /\ out = None
    /\ out' = result
    /\ parsed' = None /\ result' = None
    /\ calls' = << <<"parse_intent", Str(cmd)>> >>
    /\ pc' = "decider"
    /\ UNCHANGED <<config, world, memory, disk, text, cmd, threads, queue, ui>>

\* parse_intent(cmd, config) followed by execute, twice on one text and config
InitTwice ==
    /\ NoWindow
    /\ config \in ParseConfigs
    /\ world \in Worlds(FewRuns)
    /\ memory = Dict(<<>>) /\ disk = <<>>
    /\ cmd \in Commands
    /\ text = cmd
    /\ pc = "decider"
    /\ parsed = None /\ result = None /\ out = None
    /\ calls = << <<"parse_intent", Str(cmd)>> >>

NextTwice == Decider \/ Extract \/ Rule \/ Execute \/ Again

SpecTwice == InitTwice /\ [][NextTwice]_vars

\* config files the window is opened on
GuiConfigs == {Dict(<<>>), Dict(<< <<K_allow_execution, False>>, <<K_always_listen, False>> >>)}

\* AssistantUI after __init__: config and memory loaded, the checkboxes set,
\* the listener thread started; no model executable on the machine, and a
\* microphone with its speech model or none
InitGui ==
    /\ config \in GuiConfigs
    /\ world \in [which : {FALSE}, path : {FALSE}, runs : {{}}, tts : {"absent"}, mic : BOOLEAN,
                readonly : {FALSE}]
    /\ memory = Dict(<<>>) /\ disk = <<>>
    /\ pc = "running"
    /\ Fresh
    /\ ui = Window
    /\ queue = <<>>
    /\ threads = [i \in {Listener} |-> [Thread("_auto_listen_loop", <<>>, None) EXCEPT !.pc = "loop"]]

NextGui ==
    \/ ListenBegin \/ ListenSimulated \/ ListenLoaded \/ ListenHeard
    \/ ManualEnter \/ PollQueue \/ Reset
    \/ \E t \in 1..MaxThreads : WorkerProcess(t) \/ WorkerAssign(t) \/ WorkerSave(t) \/ WorkerPut(t)

SpecGui == InitGui /\ [][NextGui]_vars

\* argument lists of at most MaxArgs arguments
ArgLists == UNION {[1..n -> Arguments] : n \in 0..MaxArgs}

\* one of the two entry points is called with an argument list
InitMain ==
    /\ NoWindow
    /\ pc \in {"__main__.main", "cli.main"}
    /\ calls \in {<< <<pc, argv>> >> : argv \in ArgLists}
    /\ config = Dict(<<>>)
    /\ world \in {w \in Worlds({}) : ~w.which /\ ~w.path}
    /\ memory = Dict(<<>>) /\ disk = <<>>
    /\ text = <<>> /\ cmd = <<>> /\ parsed = None /\ result = None /\ out = None

NextMain == ModuleMain \/ CliMain

SpecMain == InitMain /\ [][NextMain]_vars

(***************************************************************************)
(* Claims                                                                  *)
(***************************************************************************)
Intent == get(parsed, K_intent, None)

Entities == get(parsed, K_entities, None)

\* the 'action' object the entities carry, None when they carry none
ExecAction ==
    IF isinstance_dict(Entities) /\ HasKey(Entities, K_action) THEN get(Entities, K_action, None) ELSE None

\* execute has been called in this turn
Executed == \E i \in DOMAIN calls : calls[i][1] = "execute"

\* the platform calls of this turn
PlatformCalls == {i \in DOMAIN calls : calls[i][1] \in {"webbrowser.open", "subprocess.run"}}

\* allow_execution is false or absent
DryRunConfig == ~HasKey(config, K_allow_execution) \/ get(config, K_allow_execution, None) = False

LiveConfig == HasKey(config, K_allow_execution) /\ get(config, K_allow_execution, None) = True

\* the outcome record has an 'action' that is a string
HasActionString(res) == isinstance_dict(res) /\ isinstance_str(get(res, K_action, None))

ActionString(res) == get(res, K_action, None)[2]

IsOk(res) == isinstance_dict(res) /\ get(res, K_ok, None) = True

\* C1: with allow_execution false or absent, execute makes no webbrowser.open
\* and no subprocess.run call, whatever the intent and the entities are.
C1_NoPlatformCallInDryRun == DryRunConfig => PlatformCalls = {}

\* a dry-run execution of an action object that a live run would have launched
C1_Witness ==
    /\ pc = "store" /\ Executed /\ DryRunConfig
    /\ isinstance_dict(ExecAction)
    /\ get(ExecAction, K_type, None) = Str(S_open_app)
    /\ get(ExecAction, K_app, None) = AppTarget(S_protocol, U_xbox)
    /\ PlatformCalls = {}

\* the action kind of a ParseResult: action.type on the decider path, else the intent
ActionKind ==
    IF Intent = Str(S_execute) /\ isinstance_dict(ExecAction) THEN get(ExecAction, K_type, None) ELSE Intent

\* ok=true with an action string that begins with "(dry-run)"
IsDryRunOutcome(res) == IsOk(res) /\ HasActionString(res) /\ StartsWith(ActionString(res), S_dry_run)

\* C2 as stated: in dry-run, every open_url / open_app result of parse_intent
\* is executed to ok=true with an action string that begins with "(dry-run)".
C2_Original ==
    (Executed /\ DryRunConfig /\ ActionKind \in {Str(S_open_url), Str(S_open_app)})
        => (pc = "store" /\ IsDryRunOutcome(result))

\* the url of an open_url, the app of an open_app
ArgOf(d) == IF get(d, K_type, Intent) = Str(S_open_url) THEN get(d, K_url, None) ELSE get(d, K_app, None)

\* C2 amended: in dry-run, a result of parse_intent whose action kind is open_url
\* or open_app (action.type on the decider path; the top-level intent of a
\* result whose entities carry no 'action') and whose url / app value is
\* present and non-empty is executed to ok=true with an action string that
\* begins with "(dry-run)".
C2_DryRunWhenArgumentPresent ==
    (/\ Executed /\ DryRunConfig
     /\ ActionKind \in {Str(S_open_url), Str(S_open_app)}
     /\ \/ Intent = Str(S_execute) /\ isinstance_dict(ExecAction) /\ bool(ArgOf(ExecAction))
        \/ Intent # Str(S_execute) /\ isinstance_dict(Entities) /\ ~HasKey(Entities, K_action)
           /\ bool(ArgOf(Entities)))
        => (pc = "store" /\ IsDryRunOutcome(result))

\* a decider action open_app with an app value, executed in dry-run
C2_Witness ==
    /\ pc = "store" /\ Executed /\ DryRunConfig
    /\ Intent = Str(S_execute) /\ isinstance_dict(ExecAction)
    /\ get(ExecAction, K_type, None) = Str(S_open_app)
    /\ bool(get(ExecAction, K_app, None))
    /\ IsDryRunOutcome(result)

\* C3 as stated: in live mode the action string of an outcome that follows a
\* platform call that did not throw never contains "(dry-run)", and the marker
\* appears only in outcomes produced with allow_execution=false.
C3_Original ==
    (pc = "store" /\ HasActionString(result) /\ Contains(ActionString(result), S_dry_run))
        => ~LiveConfig

\* C3 amended: in live mode the action string of an outcome that follows a
\* platform call that did not throw never begins with "(dry-run)", and an
\* action string that begins with the marker is produced only in dry-run.
C3_MarkerPrefixOnlyInDryRun ==
    (pc = "store" /\ HasActionString(result) /\ StartsWith(ActionString(result), S_dry_run))
        => ~LiveConfig

\* a live launch that succeeded and reports what it opened
C3_Witness ==
    /\ pc = "store" /\ LiveConfig /\ PlatformCalls # {}
    /\ IsOk(result) /\ HasActionString(result)
    /\ StartsWith(ActionString(result), F_opened)
    /\ Contains(ActionString(result), S_dry_run)

\* parse_intent is running
Parsing == pc \in {"decider", "extract", "rule"}

\* the name of the call made last
LastCall == IF calls = <<>> THEN "" ELSE calls[Len(calls)][1]

\* the text the rule-based path matches on
Aliased == apply_aliases(lower(cmd), 1)

AppHit == \E i \in DOMAIN app_map : WordSearch(app_map[i][1], Aliased)

SiteHit == \E i \in DOMAIN site_map : WordSearch(site_map[i][1], Aliased)

BrowserHit == \E n \in {N_edge, N_browser, N_chrome} : WordSearch(n, Aliased)

TimeHit == Contains(Aliased, N_what) /\ Contains(Aliased, N_time)

AllowedHit ==
    \E c \in Range(get(config, K_allowed_commands, List(<<>>))[2]) : Contains(Aliased, lower(c[2]))

\* no rule of the rule-based path matches the command
NoRuleMatches ==
    /\ ~(Contains(Aliased, N_open) /\ (AppHit \/ SiteHit \/ BrowserHit))
    /\ ~TimeHit
    /\ ~AllowedHit

\* parse_intent has returned a result whose intent is a string
ReturnedIntent == pc = "execute" /\ isinstance_str(Intent)

\* C4: whatever the text, the config and the external model do, parse_intent
\* terminates without raising and returns a result whose intent is a string;
\* when no rule matches, the rule-based path returns "unknown" with no entities.
C4_ParseIntentAlwaysReturns ==
    /\ [](pc = "execute" => isinstance_str(Intent))
    /\ []((pc = "execute" /\ LastCall = "_rule_based_parse" /\ NoRuleMatches)
            => parsed = ParseResult(Str(S_unknown), Dict(<<>>)))
    /\ (Parsing ~> ReturnedIntent)

\* both model calls failed and no rule matched
C4_Witness ==
    /\ pc = "execute" /\ Len(calls) = 4
    /\ calls[2][1] = "ollama.decider" /\ calls[3][1] = "ollama.extract"
    /\ calls[4][1] = "_rule_based_parse"
    /\ NoRuleMatches
    /\ parsed = ParseResult(Str(S_unknown), Dict(<<>>))

\* parse_intent is past its first strategy
PastDecider == pc \in {"extract", "rule", "execute", "store", "crashed"}

\* the first thing parse_intent did was to issue the decider prompt
DeciderFirst == Len(calls) >= 2 /\ calls[2][1] = "ollama.decider"

FlagSet(key) == HasKey(config, key) /\ get(config, key, None) = True

\* the executable is found where the config says to look for it
Discoverable == IF HasKey(config, K_ollama_path) THEN world.path ELSE world.which

\* C5 as stated: with use_ollama_decider true, parse_intent issues the decider
\* prompt before any other path, for every value of the other config keys.
C5_Original == (PastDecider /\ FlagSet(K_use_ollama_decider)) => DeciderFirst

\* C5 amended: with use_ollama_decider and use_ollama both true and the model
\* executable discoverable, parse_intent issues the decider prompt before it
\* tries the extraction path or the rule-based path, for every value of the
\* other config keys.
C5_DeciderFirstWhenLlmUsable ==
    (PastDecider /\ FlagSet(K_use_ollama_decider) /\ FlagSet(K_use_ollama) /\ Discoverable) => DeciderFirst

\* the decider was asked first and failed, then the extraction path was tried
C5_Witness ==
    /\ pc = "rule" /\ FlagSet(K_use_ollama_decider) /\ FlagSet(K_use_ollama) /\ Discoverable
    /\ HasKey(config, K_ollama_path) /\ FlagSet(K_allow_execution)
    /\ Len(calls) = 3 /\ calls[2][1] = "ollama.decider" /\ calls[3][1] = "ollama.extract"

ModelCalls == {i \in DOMAIN calls : calls[i][1] \in {"ollama.decider", "ollama.extract"}}

\* C6: when the executable is not discoverable, parse_intent with use_ollama
\* and use_ollama_decider true makes no external call and returns the result
\* it returns with use_ollama=false, the rule-based result.
C6_UndiscoverableIsRuleBased ==
    (pc \in {"execute", "store", "crashed"} /\ ~Discoverable
        /\ FlagSet(K_use_ollama) /\ FlagSet(K_use_ollama_decider))
        => /\ ModelCalls = {}
           /\ parsed = _rule_based_parse(cmd, setitem(config, K_use_ollama, False))

\* ollama_path names a missing file while an executable is on PATH
C6_Witness ==
    /\ pc = "execute" /\ ~Discoverable /\ world.which
    /\ FlagSet(K_use_ollama) /\ FlagSet(K_use_ollama_decider)
    /\ ModelCalls = {}
    /\ Intent = Str(S_open_url)

\* the result was taken from the allowed_commands scan (or is "unknown")
ScanResult == Intent \notin {Str(S_open_app), Str(S_open_url), Str(S_tell_time)}

\* C7: in the rule-based path, for text containing "open", an app-table match
\* wins over a site-table match, a site-table match over the edge / browser /
\* chrome heuristics, each of these over the what+time check, and the
\* allowed_commands scan is reached only when none of them matched.
C7_RulePriority ==
    (pc = "execute" /\ Contains(Aliased, N_open)) =>
        /\ AppHit => /\ Intent = Str(S_open_app)
                     /\ \E i \in DOMAIN app_map :
                          WordSearch(app_map[i][1], Aliased) /\ get(Entities, K_app, None) = app_map[i][2]
        /\ (~AppHit /\ SiteHit) =>
                     /\ Intent = Str(S_open_url)
                     /\ \E i \in DOMAIN site_map :
                          WordSearch(site_map[i][1], Aliased) /\ get(Entities, K_url, None) = Str(site_map[i][2])
        /\ (~AppHit /\ ~SiteHit /\ BrowserHit) =>
                     /\ Intent = Str(S_open_app)
                     /\ get(Entities, K_app, None) \in {AppTarget(S_app, N_msedge), AppTarget(S_app, N_chrome)}
        /\ (~AppHit /\ ~SiteHit /\ ~BrowserHit /\ TimeHit) => Intent = Str(S_tell_time)
        /\ ScanResult => ~(AppHit \/ SiteHit \/ BrowserHit \/ TimeHit)

\* "open", a name of both tables and what+time in one text, with "open" an allowed command
C7_Witness ==
    /\ pc = "execute" /\ Contains(Aliased, N_open)
    /\ WordSearch(N_xbox, Aliased) /\ TimeHit /\ AllowedHit
    /\ parsed = ParseResult(Str(S_open_app), Dict(<< <<K_app, AppTarget(S_protocol, U_xbox)>> >>))

\* the wake-word gate is on: always_listen is false, or absent
GateOn == get(config, K_always_listen, False) = False

\* the lower-cased wake word of the config
Wake == lower(get(config, K_wake_word, Str(S_hey_gng))[2])

\* the places of the lower-cased utterance at which the wake word stands
WakeAt == {i \in 1..(Len(text) - Len(Wake) + 1) : SubSeq(lower(text), i, i + Len(Wake) - 1) = Wake}

\* nothing of a turn was resolved, executed or saved by this step
NothingDone == calls' = <<>> /\ memory' = memory /\ disk' = disk

\* C8: with always_listen false, an utterance whose lower-cased text does not
\* contain the lower-cased wake word is answered {handled: false, reason:
\* "wake_word_not_detected"}; parse_intent and execute are not invoked, memory
\* is unchanged and save_memory is not called.
C8_GateRejectsWithoutWakeWord ==
    [][(pc = "gate" /\ GateOn /\ WakeAt = {})
        => (pc' = "report" /\ out' = NotHandled /\ NothingDone)]_vars

\* "hello world" was rejected and the memory loaded at start-up is still there
C8_Witness ==
    /\ pc = "report" /\ GateOn /\ text = X_hello
    /\ out = NotHandled
    /\ calls = <<>>
    /\ HasKey(memory, K_last_command) /\ disk = dumps(memory)

\* the utterance is the wake word, with nothing but white space around it
WakeWordAlone ==
    \E i \in WakeAt :
        /\ \A j \in WakeAt : i <= j
        /\ \A j \in 1..Len(text) : (j < i \/ j >= i + Len(Wake)) => text[j] \in SpaceChars

AnsweredYes == pc' = "report" /\ out' = Handled(K_response, Str(S_Yes)) /\ NothingDone

\* C9 as stated: when removing the first occurrence of the wake word and
\* trimming leaves nothing (the input equals the wake word), process_text
\* returns {handled: true, response: "Yes?"} without parse_intent, execute or a
\* change or save of memory.
C9_Original == [][(pc = "gate" /\ WakeWordAlone) => AnsweredYes]_vars

\* C9 amended: with always_listen false or absent, when removing the first
\* occurrence of the wake word and trimming leaves nothing (the input equals
\* the wake word, whatever its case), process_text returns {handled: true,
\* response: "Yes?"} without invoking parse_intent or execute and without
\* changing or saving memory.
C9_WakeWordAloneAnsweredYes == [][(pc = "gate" /\ GateOn /\ WakeWordAlone) => AnsweredYes]_vars

\* "Computer" was said to a session whose wake word is "Computer"
C9_Witness ==
    /\ pc = "report" /\ GateOn /\ text = X_Computer
    /\ get(config, K_wake_word, None) = Str(W_computer)
    /\ out = Handled(K_response, Str(S_Yes))
    /\ calls = <<>>
    /\ HasKey(memory, K_last_command) /\ disk = dumps(memory)

\* the places of this turn's call log at which name was called
CallsOf(name) == {i \in DOMAIN calls : calls[i][1] = name}

\* process_text is over: it returned (report) or an exception left it (crashed)
TurnOver == pc \in {"report", "crashed"}

\* what process_text stores for the turn
LastCommand == Dict(<< <<K_text, Str(cmd)>>, <<K_intent, Intent>>, <<K_entities, Entities>> >>)

\* C10 as stated: a turn that passes the gate with a non-empty command calls
\* parse_intent once, then execute once, then sets memory.last_command to
\* {command, intent, entities} and calls save_memory once, whatever the
\* executor did, every executor failure included.
C10_Original ==
    (TurnOver /\ cmd # <<>>) =>
        /\ CallsOf("parse_intent") = {1}
        /\ Cardinality(CallsOf("execute")) = 1
        /\ CallsOf("save_memory") = {Len(calls)}
        /\ \A i \in CallsOf("execute") : 1 < i /\ i < Len(calls)
        /\ get(memory, K_last_command, None) = LastCommand
        /\ disk = dumps(memory)

\* the turn of a command whose execution returned: the save is its last call
C10_Witness ==
    /\ pc = "report" /\ cmd # <<>>
    /\ IsOk(result) = FALSE /\ isinstance_dict(result)
    /\ CallsOf("save_memory") = {Len(calls)}
    /\ get(memory, K_last_command, None) = LastCommand

\* execute returned an outcome record: a mapping that carries ok
ReturnedOutcome == pc = "store" /\ isinstance_dict(result) /\ HasKey(result, K_ok)

\* C11 as stated: for every intent and entities parse_intent can return,
\* LLM-supplied entities of any JSON shape included, execute returns an outcome
\* record and never raises; a failure comes back as {ok: false, error: ...}.
C11_Original ==
    Executed => /\ ReturnedOutcome
                /\ ~IsOk(result) => HasKey(result, K_error)

\* an action of a type the executor does not know came back as a failure record
C11_Witness ==
    /\ ReturnedOutcome /\ Intent = Str(S_execute)
    /\ get(result, K_ok, None) = False
    /\ get(result, K_error, None) = Str(S_unknown_action_type)

\* the keys among action, time, error that the outcome record carries
OutcomeKeys == {k \in {K_action, K_time, K_error} : HasKey(result, k)}

\* C12 as stated: every outcome record execute returns carries exactly one of
\* action, time, error; action or time only when ok is true, error only when
\* ok is false, and every ok=false outcome carries error.
C12_Original ==
    ReturnedOutcome =>
        /\ Cardinality(OutcomeKeys) = 1
        /\ (OutcomeKeys \cap {K_action, K_time} # {}) => get(result, K_ok, None) = True
        /\ (K_error \in OutcomeKeys) => get(result, K_ok, None) = False
        /\ get(result, K_ok, None) = False => K_error \in OutcomeKeys

\* a failed live launch: ok is false and error is the only one of the three keys
C12_Witness ==
    /\ ReturnedOutcome /\ LiveConfig /\ PlatformCalls # {}
    /\ get(result, K_ok, None) = False
    /\ OutcomeKeys = {K_error}

\* the outcomes the dispatch on the action's own type and fields can give
ByActionAlone ==
    {action_branch(ExecAction, allow_execution(config), fails, now, config).res :
        fails \in BOOLEAN, now \in Clock}

\* C13 as stated: whenever the entities carry an 'action' object, the outcome
\* of execute is determined by action.type and the action's own fields alone,
\* whatever the top-level intent and the other entities are.
C13_Original ==
    (Executed /\ isinstance_dict(ExecAction)) => (pc = "store" /\ result \in ByActionAlone)

\* intent open_url with a url and an app, and an action that asks for the time
C13_Witness ==
    /\ pc = "store" /\ Intent = Str(S_open_url)
    /\ isinstance_dict(ExecAction) /\ get(ExecAction, K_type, None) = Str(S_tell_time)
    /\ get(Entities, K_url, None) = Str(V_u)
    /\ HasKey(result, K_time) /\ ~HasKey(result, K_action)

\* the outcome {ok: true, time: <timestamp>}, for a timestamp the clock can give
TimeOutcomes == {Dict(<< <<K_ok, True>>, <<K_time, Str(now)>> >>) : now \in Clock}

ActionTellsTime == isinstance_dict(ExecAction) /\ get(ExecAction, K_type, None) = Str(S_tell_time)

\* C14 as stated: for tell_time, as top-level intent or as action.type, execute
\* returns {ok: true, time: <timestamp>} with no action and no error key, the
\* same for allow_execution true and false, and makes no platform call.
C14_Original ==
    (Executed /\ (Intent = Str(S_tell_time) \/ ActionTellsTime))
        => (pc = "store" /\ result \in TimeOutcomes /\ PlatformCalls = {})

\* C14 amended: for a non-null intent, when tell_time is the type of the
\* 'action' mapping of the entities, or is the top-level intent and the
\* entities carry no 'action' or an empty or null one, execute returns
\* {ok: true, time: <timestamp>} with no action and no error key, the same
\* for allow_execution true and false, and makes no platform call.
C14_TellTimeIsAlwaysLive ==
    (Executed /\ Intent # None /\ (ActionTellsTime \/ (Intent = Str(S_tell_time) /\ ~bool(ExecAction))))
        => (pc = "store" /\ result \in TimeOutcomes /\ PlatformCalls = {})

\* the time was told in live mode, on an action that overrides intent open_url
C14_Witness ==
    /\ pc = "store" /\ LiveConfig /\ ActionTellsTime /\ Intent = Str(S_open_url)
    /\ result \in TimeOutcomes /\ PlatformCalls = {}

\* both runs of the text are over and both returned an outcome record
RanTwice == pc = "store" /\ out # None

Processing == {t \in Alive : threads[t].pc # "put"}

\* C16 as stated: in every session loop (run_interactive and the GUI's
\* _auto_listen_loop) at most one utterance is being processed at any time;
\* two executions of process_text never overlap.
C16_Original == Cardinality(Processing) <= 1

\* two utterances fetched by _auto_listen_loop are inside process_text at once
C16_Witness ==
    \E t1, t2 \in Alive :
        /\ t1 # t2
        /\ threads[t1].target = "_process_and_queue" /\ threads[t2].target = "_process_and_queue"
        /\ threads[t1].pc = "save" /\ threads[t2].pc = "process"

\* execute on the intent and entities of the state, with allow_tts set to tts
ExecuteWithTts(tts, fails, now) ==
    with_tts(execute(Intent, Entities, setitem(config, K_allow_tts, tts), fails, now), world.tts)

\* C17: for every intent, entities and config, execute returns with
\* allow_tts=true the outcome record it returns with allow_tts=false, and a
\* failure of the speech engine never leaves execute: after tts.speak was
\* called, execute has returned its record.
C17_SpeechNeverChangesOutcome ==
    Executed =>
        /\ \A fails \in BOOLEAN, now \in Clock :
             \E a \in {ExecuteWithTts(True, fails, now)}, b \in {ExecuteWithTts(False, fails, now)} :
                a.raised = b.raised /\ a.res = b.res
        /\ CallsOf("tts.speak") # {} => pc = "store" /\ isinstance_dict(result)

\* the engine raised while a successful action was spoken, and execute returned
C17_Witness ==
    /\ pc = "store" /\ world.tts = "fails" /\ get(config, K_allow_tts, False) = True
    /\ CallsOf("tts.speak") # {} /\ CallsOf("print") # {}
    /\ IsOk(result) /\ HasKey(result, K_action)

\* the entry point that was called
Entry == calls[1][1]

\* main has called the session loop with the overrides now in config
Started == pc \in {"run_interactive", "run_test"}

\* no argument, or the mode alone
BareInvocation == Argv = <<>> \/ (Len(Argv) = 1 /\ Argv[1] \in Modes)

DefaultBundle(d) ==
    /\ get(d, K_use_ollama, None) = True
    /\ get(d, K_use_ollama_decider, None) = True
    /\ get(d, K_allow_execution, None) = True

\* C18 as stated: when the module entry point is invoked with no arguments or
\* with only the mode argument ("run" or "test"), the config overrides passed
\* to the session loop contain use_ollama=true, use_ollama_decider=true and
\* allow_execution=true.
C18_Original == (Started /\ Entry = "__main__.main" /\ BareInvocation) => DefaultBundle(config)

\* python -m voice_assistant run: the session loop gets the model name only
C18_Witness ==
    /\ pc = "run_interactive" /\ Entry = "__main__.main" /\ Argv = <<"run">>
    /\ config = Dict(<< <<K_llm_model, Str(V_phi3)>> >>)

\* C19: for every argument list either entry point accepts, overrides with
\* use_ollama_decider=true also have allow_execution=true.
C19_DeciderImpliesExecution ==
    Started => (get(config, K_use_ollama_decider, None) = True
                    => get(config, K_allow_execution, None) = True)

\* cli.main is given --use-ollama-decider without --allow-exec
C19_Witness ==
    /\ Started /\ Entry = "cli.main"
    /\ \E i \in DOMAIN Argv : Argv[i] = "--use-ollama-decider"
    /\ \A i \in DOMAIN Argv : Argv[i] # "--allow-exec"
    /\ get(config, K_use_ollama_decider, None) = True
    /\ get(config, K_allow_execution, None) = True

\* C20 as stated: with allow_execution=false, no complete turn of process_text
\* (resolve, execute, persist) spawns an external process or writes to the
\* file system, for every value of the other config keys including
\* use_ollama=true.
C20_Original ==
    (TurnOver /\ DryRunConfig) =>
        /\ ModelCalls = {}
        /\ PlatformCalls = {}
        /\ CallsOf("save_memory") = {}

\* a dry-run turn whose action the model process printed and whose command
\* was written to the memory file
C20_Witness ==
    /\ pc = "report" /\ DryRunConfig
    /\ CallsOf("ollama.decider") # {} /\ Intent = Str(S_execute)
    /\ PlatformCalls = {} /\ IsDryRunOutcome(result)
    /\ CallsOf("save_memory") # {} /\ disk = dumps(memory) /\ disk # <<>>

\* the config as shipped: the gate on with the wake word "hey gng", dry-run, no LLM
DefaultConfig ==
    /\ GateOn /\ ~HasKey(config, K_wake_word)
    /\ DryRunConfig
    /\ ~bool(get(config, K_use_ollama, False))

\* C21: with the default config, process_text on "hey gng open github" resolves
\* intent open_url with entities.url "https://github.com", returns the outcome
\* {ok: true, action: "(dry-run) would open https://github.com"}, and leaves
\* memory.last_command.text equal to "open github".
C21_SmokeTestOutcome ==
    (pc = "report" /\ text = X_open_github /\ DefaultConfig) =>
        /\ Intent = Str(S_open_url)
        /\ get(Entities, K_url, None) = Str(U_github)
        /\ result = Dict(<< <<K_ok, True>>, <<K_action, Str(F_dry_open \o U_github)>> >>)
        /\ get(out, K_result, None) = result
        /\ get(get(memory, K_last_command, Dict(<<>>)), K_text, None) = Str(C_open_github)

\* the turn of "hey gng open github" is over and replaced an older last_command
C21_Witness ==
    /\ pc = "report" /\ text = X_open_github /\ DefaultConfig
    /\ config = Dict(<<>>)
    /\ cmd = C_open_github /\ PlatformCalls = {}
    /\ memory = Dict(<< <<K_last_command, LastCommand>> >>) /\ disk = dumps(memory)

\* the names of the calls of the turn, in order
CallNames == [i \in DOMAIN calls |-> calls[i][1]]

\* the actions the model process may have printed for the decider
DecodedActions ==
    {get(p, K_action, None) : p \in {q \in {_extract_json(_call_ollama(run).out) : run \in world.runs} :
                                        decider_accepts(q)}}

\* C22: when the decider path is enabled and fails, parse_intent next attempts
\* the extraction path with a second model call, and only when that also fails
\* returns the rule-based result; a decider success returns {intent: "execute",
\* entities: {action: <decoded action>}} without trying the later paths.
C22_DeciderThenExtractionThenRules ==
    /\ []((pc = "execute" /\ LastCall = "ollama.decider") =>
            /\ CallNames = <<"parse_intent", "ollama.decider">>
            /\ isinstance_dict(get(Entities, K_action, None))
            /\ \E a \in DecodedActions :
                  parsed = ParseResult(Str(S_execute), Dict(<< <<K_action, a>> >>)))
    /\ []((pc = "execute" /\ DeciderFirst /\ LastCall = "ollama.extract") =>
            CallNames = <<"parse_intent", "ollama.decider", "ollama.extract">>)
    /\ []((pc = "execute" /\ DeciderFirst /\ LastCall = "_rule_based_parse") =>
            /\ CallNames = <<"parse_intent", "ollama.decider", "ollama.extract", "_rule_based_parse">>
            /\ parsed = _rule_based_parse(cmd, config))
    /\ []((pc = "extract" /\ DeciderFirst) => <>(CallsOf("ollama.extract") # {}))

\* the decider and the extraction both failed and the rules resolved the text
C22_Witness ==
    /\ pc = "execute"
    /\ CallNames = <<"parse_intent", "ollama.decider", "ollama.extract", "_rule_based_parse">>
    /\ Intent = Str(S_open_url)

(***************************************************************************)
(* C23: the model process fails at every call                              *)
(***************************************************************************)
\* the three ways subprocess.run raises
Outages == {Throws(e) : e \in {"FileNotFoundError", "TimeoutExpired", "OSError"}}

\* parse_intent and execute in a world whose model process never answers
InitOutage ==
    /\ NoWindow
    /\ config \in ParseConfigs
    /\ world \in UNION {Worlds(R) : R \in (SUBSET Outages) \ {{}}}
    /\ memory = Dict(<<>>) /\ disk = <<>>
    /\ cmd \in Commands
    /\ text = cmd
    /\ pc = "decider"
    /\ parsed = None /\ result = None /\ out = None
    /\ calls = << <<"parse_intent", Str(cmd)>> >>

SpecOutage == InitOutage /\ [][NextPipeline]_vars

\* C23: an exception of the model process (missing executable, timeout, any
\* other process error) is absorbed inside _call_ollama: the call yields the
\* empty output, the strategy that made it fails and parse_intent goes on to
\* the next strategy, down to the rules, and nothing is raised to its caller.
C23_ModelFailureAbsorbed ==
    /\ [](pc # "crashed")
    /\ [](\A run \in world.runs : _call_ollama(run).out = <<>>)
    /\ [][(pc = "decider" /\ decider_enabled(config, world))
            => /\ pc' = "extract" /\ parsed' = parsed
               /\ calls' = Append(calls, <<"ollama.decider", Str(cmd)>>)]_vars
    /\ [][(pc = "extract" /\ llm_enabled(config, world))
            => /\ pc' = "rule" /\ parsed' = parsed
               /\ calls' = Append(calls, <<"ollama.extract", Str(cmd)>>)]_vars
    /\ []((pc = "execute" /\ llm_enabled(config, world))
            => LastCall = "_rule_based_parse" /\ parsed = _rule_based_parse(cmd, config))

\* both prompts timed out and the rules resolved the command
C23_Witness ==
    /\ pc = "execute" /\ world.runs = {Throws("TimeoutExpired")}
    /\ CallNames = <<"parse_intent", "ollama.decider", "ollama.extract", "_rule_based_parse">>
    /\ cmd = C_open_github /\ Intent = Str(S_open_url)

\* the entities carry an 'action' mapping whose type is none of the three
UnknownActionType ==
    /\ isinstance_dict(ExecAction)
    /\ get(ExecAction, K_type, None) \notin {Str(S_open_url), Str(S_open_app), Str(S_tell_time)}

UnknownActionOutcome ==
    Dict(<< <<K_ok, False>>, <<K_error, Str(S_unknown_action_type)>>, <<K_action, ExecAction>> >>)

\* C24 as stated: whenever the entities carry an 'action' object whose type is
\* not open_url, open_app or tell_time (type "none", a missing type and an
\* action object with no fields included), execute returns
\* {ok: false, error: "unknown_action_type", action: <action>}.
C24_Original ==
    (Executed /\ UnknownActionType) => (pc = "store" /\ result = UnknownActionOutcome)

\* the decider's reply {"action": {}} reaches execute and is answered by the
\* top-level intent
C24_Witness ==
    /\ pc = "store" /\ LastCall = "execute" /\ DeciderFirst
    /\ Intent = Str(S_execute) /\ ExecAction = Dict(<<>>)
    /\ result = Dict(<< <<K_ok, False>>, <<K_error, Str(S_unknown_intent)>>, <<K_intent, Str(S_execute)>> >>)

\* an action of type "none" is answered with unknown_action_type
C24_TypeNoneRejected ==
    /\ pc = "store" /\ ExecAction = Dict(<< <<K_type, Str(V_none)>> >>)
    /\ result = UnknownActionOutcome

\* execute dispatches on the type of the 'action' mapping, or on the intent
OpenAppByAction ==
    Intent # None /\ isinstance_dict(ExecAction) /\ get(ExecAction, K_type, None) = Str(S_open_app)

OpenAppByIntent ==
    Intent = Str(S_open_app) /\ isinstance_dict(Entities) /\ ~bool(ExecAction)

\* the app value execute reads: action.get("app") or entities.get("app")
RequestedApp ==
    IF OpenAppByAction THEN get(ExecAction, K_app, None) ELSE get(Entities, K_app, None)

\* a mapping whose kind is neither "protocol" nor "app"
UnknownMapping(app) ==
    isinstance_dict(app) /\ get(app, K_type, None) \notin {Str(S_protocol), Str(S_app)}

UnknownMappingOutcome ==
    Dict(<< <<K_ok, False>>, <<K_error, Str(S_unknown_app_mapping)>>, <<K_mapping, RequestedApp>> >>)

\* C25 as stated: for open_app with an app value that is a mapping whose kind
\* is neither "protocol" nor "app", execute returns
\* {ok: false, error: "unknown_app_mapping", mapping: <value>} and launches
\* nothing, in live and in dry-run mode, for the intent and the action source.
C25_Original ==
    (Executed /\ (OpenAppByAction \/ OpenAppByIntent) /\ UnknownMapping(RequestedApp))
        => (pc = "store" /\ result = UnknownMappingOutcome /\ PlatformCalls = {})

\* dry run, intent open_app with a mapping of an unknown kind: reported as a
\* launch that would happen
C25_Witness ==
    /\ pc = "store" /\ DryRunConfig /\ OpenAppByIntent
    /\ RequestedApp = AppTarget(V_mapped, V_u)
    /\ IsOk(result)
    /\ get(result, K_action, None) = Str(F_dry_launch \o str(RequestedApp))

\* what the live branch does with a non-empty mapping of an unknown kind
C25_LiveMappingRejected ==
    (Executed /\ LiveConfig /\ (OpenAppByAction \/ OpenAppByIntent)
        /\ UnknownMapping(RequestedApp) /\ bool(RequestedApp))
        => (pc = "store" /\ result = UnknownMappingOutcome /\ PlatformCalls = {})

OpenUrlByAction ==
    Intent # None /\ isinstance_dict(ExecAction) /\ get(ExecAction, K_type, None) = Str(S_open_url)

OpenUrlByIntent ==
    Intent = Str(S_open_url) /\ isinstance_dict(Entities) /\ ~bool(ExecAction)

\* the url execute reads: action.get("url") or entities.get("url")
RequestedUrl ==
    IF OpenUrlByAction THEN get(ExecAction, K_url, None) ELSE get(Entities, K_url, None)

\* the value is missing (get gives None) or empty
Empty(v) == v \in {None, Str(<<>>), Dict(<<>>), List(<<>>)}

AllowedNames == {V_play, S_tell_time, S_open_url, S_unknown}

AllowedLists ==
    {<<>>} \cup {<<Str(a)>> : a \in AllowedNames}
           \cup {<<Str(a), Str(b)>> : a \in AllowedNames, b \in AllowedNames}

AllowedConfigs ==
    {Dict(a \o << <<K_allowed_commands, List(l)>> >>) :
        a \in Opt(K_allow_execution, {True}), l \in AllowedLists}

AllowedTexts == AllowedNames \cup {C_play, C_hello, C_time}

\* execute on what the rules make of a text, and on any intent and entities
InitVerbatim ==
    /\ NoWindow
    /\ world \in {w \in Worlds({}) : ~w.which /\ ~w.path}
    /\ memory = Dict(<<>>) /\ disk = <<>>
    /\ result = None /\ out = None
    /\ \/ /\ config \in AllowedConfigs
          /\ cmd \in AllowedTexts
          /\ pc = "rule" /\ parsed = None
          /\ calls = << <<"parse_intent", Str(cmd)>> >>
       \/ /\ config \in ExecConfigs
          /\ cmd = <<>>
          /\ pc = "execute"
          /\ parsed \in {ParseResult(i, e) : i \in Intents, e \in EntitiesSet}
          /\ calls = <<>>
    /\ text = cmd

NextVerbatim == Rule \/ Execute

SpecVerbatim == InitVerbatim /\ [][NextVerbatim]_vars

KnownIntents == {Str(S_open_url), Str(S_open_app), Str(S_tell_time)}

\* the rules took the intent verbatim from allowed_commands
FromAllowedCommands ==
    /\ CallsOf("_rule_based_parse") # {}
    /\ ~(Contains(Aliased, N_open) /\ (AppHit \/ SiteHit \/ BrowserHit))
    /\ ~TimeHit
    /\ AllowedHit

RuleSaidUnknown == CallsOf("_rule_based_parse") # {} /\ Intent = Str(S_unknown)

UnknownIntentOutcome ==
    Dict(<< <<K_ok, False>>, <<K_error, Str(S_unknown_intent)>>, <<K_intent, Intent>> >>)

\* without an 'action' in the entities: no_intent for None, unknown_intent for
\* a string that is none of the three
NoActionDispatch ==
    /\ (Executed /\ ExecAction = None /\ Intent = None)
         => (pc = "store" /\ result = Err(S_no_intent))
    /\ (Executed /\ ExecAction = None /\ isinstance_str(Intent) /\ Intent \notin KnownIntents)
         => (pc = "store" /\ result = UnknownIntentOutcome)

\* C27 as stated: with no action object in the entities, execute returns
\* {ok: false, error: "no_intent"} for intent None and
\* {ok: false, error: "unknown_intent", intent: <intent>} for every intent
\* string other than open_url, open_app and tell_time; so every intent the
\* rule-based path takes verbatim from allowed_commands, and the intent
\* "unknown", ends in an ok=false outcome.
C27_Original ==
    /\ NoActionDispatch
    /\ (Executed /\ (FromAllowedCommands \/ RuleSaidUnknown))
         => (pc = "store" /\ get(result, K_ok, None) = False)

\* C27 amended: the same dispatch; an intent the rule-based path takes
\* verbatim from allowed_commands ends in an ok=false outcome unless the
\* entry is "tell_time", which is answered with the time, and the intent
\* "unknown" ends in unknown_intent.
C27_VerbatimIntentFailsUnlessTellTime ==
    /\ NoActionDispatch
    /\ (Executed /\ FromAllowedCommands /\ Intent # Str(S_tell_time))
         => (pc = "store" /\ get(result, K_ok, None) = False)
    /\ (Executed /\ FromAllowedCommands /\ Intent = Str(S_tell_time))
         => (pc = "store" /\ result \in TimeOutcomes)
    /\ (Executed /\ RuleSaidUnknown) => (pc = "store" /\ result = UnknownIntentOutcome)

\* "play music" with allowed_commands ["play"]: intent "play", unknown_intent
C27_Witness ==
    /\ pc = "store" /\ FromAllowedCommands /\ cmd = C_play
    /\ Intent = Str(V_play) /\ result = UnknownIntentOutcome

\* the worker threads that have assigned last_command and not yet returned
\* from save_memory
Writing == {t \in Alive : threads[t].pc = "save"}

\* C28 as stated: within one session-loop instance sharing one memory mapping
\* (the GUI instance included) two writes of memory, the assignment of
\* last_command followed by save_memory, never interleave.
C28_Original == Cardinality(Writing) <= 1

\* the turn of "hey gng open github" has returned from save_memory, and what it
\* saved is the last_command of the typed "hello", whose turn is still writing
C28_Witness ==
    \E t1, t2 \in Alive :
        /\ threads[t1].pc = "put" /\ threads[t1].cmd = lower(X_open_github)
        /\ IsOk(threads[t1].result)
        /\ threads[t2].pc = "save" /\ threads[t2].cmd = X_hello
        /\ disk = dumps(memory)
        /\ get(get(memory, K_last_command, Dict(<<>>)), K_text, None) = Str(X_hello)

\* the events _auto_listen_loop and its status callback put on the queue; a
\* "result" event is put by the worker thread of its utterance
ListenerEvents == {"stt_status", "focus_entry", "status"}

\* the events waiting in the queue were all put by one thread
SingleProducer ==
    /\ ~(\E i, j \in DOMAIN queue : queue[i][1] = "result" /\ queue[j][1] \in ListenerEvents)
    /\ Cardinality({i \in DOMAIN queue : queue[i][1] = "result"}) <= 1

\* a step that changes the rendering state is no step of the listener thread
\* or of a worker thread
RenderedOnTkThread ==
    ui' # ui => /\ threads'[Listener] = threads[Listener]
                /\ \A t \in Alive : t \in DOMAIN threads' /\ threads'[t] = threads[t]

\* C29 as stated: in the GUI the session-loop side and the rendering thread
\* communicate only through one queue with a single producer thread and a
\* single consumer (_poll_queue); no worker thread changes the rendering
\* state (status label, listening flag, animation), only the consumer does.
C29_Original == []SingleProducer /\ [][RenderedOnTkThread]_vars

\* an event of the listener thread and the result of a worker thread wait in
\* the queue while a second worker thread is about to put its result
C29_Witness ==
    /\ Len(queue) = 2
    /\ queue[1][1] = "stt_status" /\ queue[2][1] = "result"
    /\ \E t \in Alive : threads[t].pc = "put"

\* the rendering state is changed by _poll_queue, _reset and _on_manual_enter,
\* which run on the Tk thread, and by nothing else
C29_OnlyTkThreadRenders == [][RenderedOnTkThread]_vars

(***************************************************************************)
(* C30: run_interactive on the lines of standard input                     *)
(***************************************************************************)
MaxLines == 2

\* the lines still to be read from sys.stdin, without their newline; the
\* stream is at its end when none is left
Streams ==
    UNION {[1..n -> {<<>>, X_open_github, X_hello}] : n \in 0..MaxLines}

\* run_interactive line 112 calls stt.listen, which without a speech model
\* prints its prompt (lines 122-129) and goes on to read a line
ListenStdin ==
    /\ pc = "listen"
    /\ pc' = "readline"
    /\ UNCHANGED <<config, world, memory, disk, text, cmd, parsed, result, out, calls, threads, queue, ui>>

\* stt.listen lines 130-133 with run_interactive lines 116-117: readline()
\* gives '' at the end of the stream and listen returns ''; a line is returned
\* stripped; the loop skips an empty text and calls listen again
ReadLine ==
    /\ pc = "readline"
    /\ IF world.stdin = <<>>
       THEN pc' = "listen" /\ UNCHANGED <<world, text>>
       ELSE \E line \in {strip(Head(world.stdin))} :
              /\ world' = [world EXCEPT !.stdin = Tail(@)]
              /\ IF line = <<>> THEN pc' = "listen" /\ text' = text
                 ELSE text' = line /\ pc' = "gate"
    /\ UNCHANGED <<config, memory, disk, cmd, parsed, result, out, calls, threads, queue, ui>>

\* the console session without a speech model: utterances are lines of stdin
InitConsole ==
    /\ NoWindow
    /\ config \in {Dict(a \o b) : a \in Opt(K_allow_execution, {True}), b \in Opt(K_always_listen, {True})}
    /\ world \in [which : {FALSE}, path : {FALSE}, runs : {{}}, tts : {"absent"}, stdin : Streams]
    /\ memory = Dict(<<>>) /\ disk = <<>>
    /\ pc = "listen"
    /\ Fresh

NextConsole ==
    ListenStdin \/ ReadLine \/ Interrupt \/ Gate \/ Decider \/ Extract \/ Rule \/ Execute \/ Store \/ Report

SpecConsole == InitConsole /\ [][NextConsole]_vars

\* the loop and the turn run on one thread that is never suspended for good;
\* an interrupt is the user's to give and no fairness is assumed of it
LiveSpecConsole ==
    /\ SpecConsole
    /\ WF_vars(ListenStdin) /\ WF_vars(ReadLine) /\ WF_vars(Gate) /\ WF_vars(Decider) /\ WF_vars(Extract)
    /\ WF_vars(Rule) /\ WF_vars(Execute) /\ WF_vars(Store) /\ WF_vars(Report)

\* the input stream is closed, and run_interactive is about to read from it
AtEndOfInput == pc \in {"listen", "readline"} /\ world.stdin = <<>>

\* run_interactive has returned, or an exception has ended it
Terminated == pc \in {"exited", "crashed"}

\* C30 as stated: run_interactive eventually terminates once the input stream
\* is closed, and it terminates on an interrupt; it does not keep iterating on
\* a closed stream.
C30_Original == AtEndOfInput ~> Terminated

\* both lines were read and processed, the last command is saved, and the
\* loop is back at stt.listen on the closed stream
C30_Witness ==
    /\ AtEndOfInput
    /\ get(get(memory, K_last_command, Dict(<<>>)), K_text, None) \in {Str(X_hello), Str(lower(X_open_github))}
    /\ disk = dumps(memory)

\* on a closed stream nothing but the interrupt ends the loop: every other
\* step is the next call of stt.listen or its empty return
C30_ClosedStreamOnlyInterruptLeaves ==
    [][AtEndOfInput => (pc' \in {"listen", "readline", "exited"}
                        /\ UNCHANGED <<world, memory, disk, text>>)]_vars

(***************************************************************************)
(* C31, C32: parse_intent against one known answer of the model process    *)
(***************************************************************************)
\* parse_intent and execute in a world whose model process always goes the
\* same way
InitOneRun ==
    /\ NoWindow
    /\ config \in ParseConfigs
    /\ world \in UNION {Worlds({run}) : run \in AllRuns}
    /\ memory = Dict(<<>>) /\ disk = <<>>
    /\ cmd \in Commands
    /\ text = cmd
    /\ pc = "decider"
    /\ parsed = None /\ result = None /\ out = None
    /\ calls = << <<"parse_intent", Str(cmd)>> >>

SpecOneRun == InitOneRun /\ [][NextPipeline]_vars

\* the way the model process goes in this world
TheRun == CHOOSE run \in world.runs : TRUE

\* parse_intent has returned what an LLM path made of the model's answer
LlmSucceeded == pc = "execute" /\ LastCall \in {"ollama.decider", "ollama.extract"}

\* C31 as stated: an LLM path can succeed only when the model process wrote a
\* JSON object to standard output; when standard output is empty the path
\* fails whatever the process wrote to standard error.
C31_Original ==
    LlmSucceeded => (TheRun.kind = "exit" /\ TheRun.stdout # <<>> /\ bool(_extract_json(TheRun.stdout)))

\* what the process wrote where parse_intent looks for the object: standard
\* output, and standard error when standard output is empty
Written == IF TheRun.stdout # <<>> THEN TheRun.stdout ELSE TheRun.stderr

\* C31 amended: an LLM path can succeed only when the model process exited
\* and wrote a JSON object to standard output or, standard output being
\* empty, to standard error; with empty standard output the decider path
\* succeeds whenever standard error holds an object with an 'action' mapping,
\* and every LLM path fails when standard error holds no object.
C31_StderrAnswersWhenStdoutEmpty ==
    /\ LlmSucceeded => (TheRun.kind = "exit" /\ bool(_extract_json(Written)))
    /\ (pc = "execute" /\ TheRun.stdout = <<>> /\ decider_enabled(config, world)
          /\ isinstance_dict(get(_extract_json(TheRun.stderr), K_action, None)))
         => (LastCall = "ollama.decider"
             /\ Entities = Dict(<< <<K_action, get(_extract_json(TheRun.stderr), K_action, None)>> >>))
    /\ (pc = "execute" /\ TheRun.stdout = <<>> /\ ~bool(_extract_json(TheRun.stderr)))
         => LastCall = "_rule_based_parse"

\* nothing on standard output, the decider's answer on standard error
C31_Witness ==
    /\ LlmSucceeded /\ LastCall = "ollama.decider"
    /\ TheRun.stdout = <<>> /\ TheRun.stderr # <<>>
    /\ get(ExecAction, K_url, None) = Str(U_github)

\* the object parse_intent decodes from the answer of the model process
Decoded == _extract_json(_call_ollama(TheRun).out)

\* the decoded object has an 'intent' that is a string and an 'entities' that
\* is an object
BothFields ==
    /\ HasKey(Decoded, K_intent) /\ isinstance_str(get(Decoded, K_intent, None))
    /\ HasKey(Decoded, K_entities) /\ isinstance_dict(get(Decoded, K_entities, None))

ExtractionTried == pc = "execute" /\ CallsOf("ollama.extract") # {}

\* C32 as stated: the extraction path succeeds only when the decoded object
\* has both an 'intent' that is a string and an 'entities' that is an object;
\* when either is missing or has the wrong shape the path fails and
\* parse_intent returns the rule-based result.
C32_Original ==
    ExtractionTried =>
        IF BothFields
        THEN LastCall = "ollama.extract"
             /\ parsed = ParseResult(get(Decoded, K_intent, None), get(Decoded, K_entities, None))
        ELSE LastCall = "_rule_based_parse" /\ parsed = _rule_based_parse(cmd, config)

\* the model answered {"intent": "open_url"} to "open github": the extraction
\* path succeeded with empty entities, and the site the rules know is lost
C32_Witness ==
    /\ ExtractionTried /\ LastCall = "ollama.extract"
    /\ Decoded = Dict(<< <<K_intent, Str(S_open_url)>> >>)
    /\ cmd = C_open_github
    /\ parsed = ParseResult(Str(S_open_url), Dict(<<>>))
    /\ _rule_based_parse(cmd, config) = ParseResult(Str(S_open_url), Dict(<< <<K_url, Str(U_github)>> >>))

\* what the code requires: a string 'intent', and an 'entities' that is an
\* object when it is there at all
C32_MissingEntitiesAccepted ==
    ExtractionTried =>
        IF /\ isinstance_str(get(Decoded, K_intent, None))
           /\ (HasKey(Decoded, K_entities) => isinstance_dict(get(Decoded, K_entities, None)))
        THEN LastCall = "ollama.extract"
             /\ Intent = get(Decoded, K_intent, None)
             /\ Entities = (IF HasKey(Decoded, K_entities) THEN get(Decoded, K_entities, None) ELSE Dict(<<>>))
        ELSE LastCall = "_rule_based_parse" /\ parsed = _rule_based_parse(cmd, config)

\* the entries of allowed_commands whose lower-cased text stands in the text
AllowedMatches ==
    {c \in Range(get(config, K_allowed_commands, List(<<>>))[2]) : Contains(Aliased, lower(c[2]))}

\* C33: the rule-based path returns open_url or open_app only when the
\* aliased, lower-cased text contains the substring "open"; for a text without
\* it the result is tell_time, an allowed_commands entry or unknown, with no
\* entities, even when the text names an app or a site.
C33_OpenIntentsNeedOpen ==
    (pc = "execute" /\ LastCall = "_rule_based_parse") =>
        /\ Intent \in {Str(S_open_url), Str(S_open_app)} => Contains(Aliased, N_open)
        /\ ~Contains(Aliased, N_open) =>
             /\ Entities = Dict(<<>>)
             /\ \/ Intent = Str(S_tell_time) /\ TimeHit
                \/ Intent \in AllowedMatches /\ ~TimeHit
                \/ Intent = Str(S_unknown) /\ ~TimeHit /\ AllowedMatches = {}

\* "xbox github": a name of the app table and one of the site table, no "open"
C33_Witness ==
    /\ pc = "execute" /\ LastCall = "_rule_based_parse"
    /\ ~Contains(Aliased, N_open) /\ AppHit /\ SiteHit
    /\ ~HasKey(config, K_allowed_commands)
    /\ parsed = ParseResult(Str(S_unknown), Dict(<<>>))

\* a step of the rules or of execute
RulesOrExecuteStep == pc \in {"rule", "execute"}

\* C34: parse_intent makes no call of the model when use_ollama is false,
\* whatever use_ollama_decider is, or when the executable is not discoverable;
\* otherwise it makes at most two calls per resolution, the decider call
\* before the extraction call; the rules and execute never call the model.
C34_ModelCallsBounded ==
    /\ []((~bool(get(config, K_use_ollama, False)) \/ ~Discoverable) => ModelCalls = {})
    /\ [](/\ Cardinality(CallsOf("ollama.decider")) <= 1
          /\ Cardinality(CallsOf("ollama.extract")) <= 1
          /\ \A i \in CallsOf("ollama.decider"), j \in CallsOf("ollama.extract") : i < j)
    /\ [][RulesOrExecuteStep =>
            {calls'[i][1] : i \in DOMAIN calls'} \cap {"ollama.decider", "ollama.extract"}
              = {calls[i][1] : i \in DOMAIN calls} \cap {"ollama.decider", "ollama.extract"}]_vars

\* use_ollama_decider is set, use_ollama is not, an executable is on PATH: the
\* command was resolved by the rules and executed without a call of the model
C34_Witness ==
    /\ pc = "store" /\ FlagSet(K_use_ollama_decider) /\ ~HasKey(config, K_use_ollama)
    /\ Discoverable /\ world.which
    /\ ModelCalls = {} /\ CallsOf("_rule_based_parse") # {} /\ Executed

(***************************************************************************)
(* C35: the turns the GUI's listener starts, the memory file writable or not *)
(***************************************************************************)
InitGuiMic ==
    /\ config = Dict(<<>>)
    /\ world \in [which : {FALSE}, path : {FALSE}, runs : {{}}, tts : {"absent"}, mic : {TRUE},
                readonly : BOOLEAN]
    /\ memory = Dict(<<>>) /\ disk = <<>>
    /\ pc = "running"
    /\ Fresh
    /\ ui = Window
    /\ queue = <<>>
    /\ threads = [i \in {Listener} |-> [Thread("_auto_listen_loop", <<>>, None) EXCEPT !.pc = "loop"]]

\* with a microphone the listener never takes its simulated-input branch
NextGuiMic ==
    \/ ListenBegin \/ ListenLoaded \/ ListenHeard
    \/ PollQueue \/ Reset
    \/ \E t \in 1..MaxThreads : WorkerProcess(t) \/ WorkerAssign(t) \/ WorkerSave(t) \/ WorkerPut(t)

SpecGuiMic == InitGuiMic /\ [][NextGuiMic]_vars

\* every started thread runs on, _poll_queue reschedules itself every 200 ms
\* (its finally clause) and a scheduled _reset fires; nothing is assumed of
\* what the user says. queue.put never blocks: the fairness of WorkerPut is
\* strong because the queue of the model is capped at MaxQueue events
LiveSpecGuiMic ==
    /\ SpecGuiMic
    /\ WF_vars(PollQueue) /\ WF_vars(Reset)
    /\ \A t \in 1..MaxThreads :
         /\ WF_vars(WorkerProcess(t)) /\ WF_vars(WorkerAssign(t))
         /\ WF_vars(WorkerSave(t)) /\ SF_vars(WorkerPut(t))

ResultQueued == \E i \in DOMAIN queue : queue[i][1] = "result"

NumResults(q) == Cardinality({i \in DOMAIN q : q[i][1] = "result"})

\* a thread of _process_and_queue ends by putting the one result event of its
\* utterance, and no result event is put in any other way
OneResultPerTurn ==
    /\ \A t \in Alive :
         (threads[t].target = "_process_and_queue" /\ t \notin DOMAIN threads')
            => queue' = Append(queue, <<"result", threads[t].text, threads[t].res>>)
    /\ NumResults(queue') > NumResults(queue)
         => /\ Len(queue') = Len(queue) + 1
            /\ \E t \in Alive : t \notin DOMAIN threads'

\* the result event is the last one _poll_queue takes from the queue in this step
ConsumedLast ==
    /\ queue # <<>> /\ queue[Len(queue)][1] = "result" /\ queue' = <<>>

\* C35 as stated: every turn the GUI starts on a worker thread
\* (_process_and_queue) puts exactly one ("result", text, payload) event on
\* the queue, also when process_text raises, and every queued result event
\* is eventually consumed by _poll_queue, which then sets the status to Idle
\* and the listening flag to false.
C35_Original ==
    /\ [][OneResultPerTurn]_vars
    /\ \A t \in 1..MaxThreads : (t \in Alive) ~> (t \notin Alive)
    /\ ResultQueued ~> (queue = <<>>)
    /\ [][ConsumedLast => (~ui'.listening /\ ui'.status_label = <<"Idle", <<>>>>)]_vars

\* C35 amended: the same, except for what _poll_queue leaves behind: the
\* listening flag false, the animation stopped and the status label showing
\* the outcome, shortened to 60 characters; the label goes back to Idle
\* when the _reset scheduled by _append_result fires.
C35_ResultShownThenIdle ==
    /\ [][OneResultPerTurn]_vars
    /\ \A t \in 1..MaxThreads : (t \in Alive) ~> (t \notin Alive)
    /\ ResultQueued ~> (queue = <<>>)
    /\ [][ConsumedLast =>
            /\ ~ui'.listening /\ ~ui'.anim /\ ui'.reset_due
            /\ ui'.status_label = <<"short", short(Str(str(queue[Len(queue)][3])))>>]_vars
    /\ ui.reset_due ~> (ui.status_label = <<"Idle", <<>>>>)

\* save_memory raised in the turn of "hey gng open github": its thread has
\* ended, its error outcome is the one result event in the queue
C35_Witness ==
    /\ world.readonly /\ Alive = {}
    /\ NumResults(queue) = 1
    /\ queue[Len(queue)] = <<"result", X_open_github,
                              Dict(<< <<K_ok, False>>, <<K_error, Str(E_PermissionError)>> >>)>>

\* the flags every config handed to process_text by the GUI carries
GuiFlags == {K_always_listen, K_allow_execution, K_use_ollama, K_use_ollama_decider}

\* C36: every config the GUI passes to process_text has always_listen true, so
\* no GUI turn is rejected by the wake-word gate; and at start-up
\* allow_execution, use_ollama and use_ollama_decider are all true whatever
\* the loaded config says, so a config with allow_execution false does not
\* keep the first GUI turn in dry-run.
C36_GuiForcesFlags ==
    /\ ui.allow_exec_var /\ ui.use_ollama_var /\ ui.ollama_decider_var
    /\ \A t \in DOMAIN threads :
         threads[t].cfg # None => \A k \in GuiFlags : get(threads[t].cfg, k, None) = True
    /\ \A t \in Alive :
         /\ threads[t].res # NotHandled
         /\ threads[t].result # None => ~IsDryRunOutcome(threads[t].result)
    /\ \A i \in DOMAIN queue : queue[i][3] # NotHandled

\* the file config forbids execution and asks for the wake word; the turn of
\* a typed "hello world" passed the gate and the spoken "hey gng open github"
\* opened the site
C36_Witness ==
    /\ get(config, K_allow_execution, None) = False /\ get(config, K_always_listen, None) = False
    /\ \E t1, t2 \in Alive :
         /\ threads[t1].target = "_process_text_worker" /\ threads[t1].pc = "assign"
         /\ threads[t1].cmd = X_hello
         /\ threads[t2].target = "_process_and_queue" /\ threads[t2].pc = "save"
         /\ threads[t2].result = Dict(<< <<K_ok, True>>, <<K_action, Str(F_opened \o U_github)>> >>)
====
